---------------------------- MODULE Spec2Model ----------------------------
(***************************************************************************)
(* A model of mousebender's wheel resolver: the WheelProvider of           *)
(* src/mousebender/resolve.py (find_matches, get_dependencies,             *)
(* is_satisfied_by, candidate_sort_key, get_preference) driven by the      *)
(* resolvelib backtracking engine that resolve() of src/__main__.py and    *)
(* the TestResolution tests run it under.                                  *)
(*                                                                         *)
(* Encoding of the data                                                    *)
(*   name        a sequence of one-character strings, <<"S","p">>          *)
(*   version     a natural number (versions are totally ordered)           *)
(*   specifier   a sequence of clauses [op, v]; the set is their           *)
(*               conjunction, <<>> accepts every version                   *)
(*   optional x  <<>> for None / absent, <<x>> for present                 *)
(*   build tag   <<>> for no build tag, <<n, s>> for (n, suffix)           *)
(*   marker      [var, val, extra]: (var = "" or env[var] = val) and       *)
(*               (extra = <<>> or env["extra"] = extra)                    *)
(*   file        an index into scen.files: a WheelFile object; two         *)
(*               indices may carry the same filename tuple                 *)
(***************************************************************************)
EXTENDS Naturals, Integers, Sequences, FiniteSets, TLC

VARIABLES scen, prov, states, pc, result, log

vars == <<scen, prov, states, pc, result, log>>

-----------------------------------------------------------------------------
(* Generic helpers                                                         *)

None == <<>>

Some(x) == <<x>>

Range(s) == {s[i] : i \in DOMAIN s}

RECURSIVE SeqLess(_, _)
\* Python's tuple "<": lexicographic, a proper prefix is smaller.
SeqLess(s, t) ==
    IF t = <<>> THEN FALSE
    ELSE IF s = <<>> THEN TRUE
    ELSE IF Head(s) < Head(t) THEN TRUE
    ELSE IF Head(t) < Head(s) THEN FALSE
    ELSE SeqLess(Tail(s), Tail(t))

RECURSIVE SelectIdx(_, _, _)
SelectIdx(s, Test(_), i) ==
    IF i > Len(s) THEN <<>>
    ELSE (IF Test(s[i]) THEN <<s[i]>> ELSE <<>>) \o SelectIdx(s, Test, i + 1)

\* Python's filter(): the elements passing Test, in order.
Filter(s, Test(_)) == SelectIdx(s, Test, 1)

-----------------------------------------------------------------------------
(* packaging.utils.canonicalize_name: runs of "-", "_", "." become one     *)
(* "-", and the result is lowercased.                                      *)

IsSeparator(c) == c \in {"-", "_", "."}

Lower(c) ==
    CASE c = "A" -> "a"
      [] c = "B" -> "b"
      [] c = "C" -> "c"
      [] c = "E" -> "e"
      [] c = "F" -> "f"
      [] c = "Z" -> "z"
      [] OTHER -> c

RECURSIVE CollapseFrom(_, _)
CollapseFrom(raw, i) ==
    IF i > Len(raw) THEN <<>>
    ELSE IF IsSeparator(raw[i])
         THEN IF i > 1 /\ IsSeparator(raw[i - 1])
              THEN CollapseFrom(raw, i + 1)
              ELSE <<"-">> \o CollapseFrom(raw, i + 1)
         ELSE <<Lower(raw[i])>> \o CollapseFrom(raw, i + 1)

canonicalize_name(raw) == CollapseFrom(raw, 1)

-----------------------------------------------------------------------------
(* packaging.specifiers.SpecifierSet.__contains__ over plain releases.     *)

ClauseHolds(c, v) ==
    CASE c.op = "==" -> v = c.v
      [] c.op = "!=" -> v # c.v
      [] c.op = ">=" -> v >= c.v
      [] c.op = "<=" -> v <= c.v
      [] c.op = "<" -> v < c.v
      [] c.op = ">" -> v > c.v

Contains(specifier, v) == \A i \in DOMAIN specifier : ClauseHolds(specifier[i], v)

(* packaging.markers.Marker.evaluate(environment): "extra" defaults to     *)
(* the empty string when the environment does not set it.                  *)
MarkerEvaluate(m, env, extra) ==
    /\ (m.var = "" \/ env[m.var] = m.val)
    /\ (m.extra = <<>> \/ m.extra = extra)

NoExtra == <<>>


-----------------------------------------------------------------------------
(* The objects of src/mousebender/resolve.py                               *)

\* The WheelFile object behind a file index: its details, the parsed
\* filename tuple and the metadata the provider will attach to it.
File(f) == scen.files[f]

\* Wheel._filename_tuple: (name, version, build tag, tags).
filename_tuple(f) == <<File(f).name, File(f).version, File(f).build_tag, File(f).tags>>

RequirementRawIdentifier(req) ==
    [identifier |-> <<req.name, req.extras>>, req |-> req]

\* Requirement.__init__: the identifier is (canonical name, canonical extras).
Requirement(req) ==
    [identifier |-> <<canonicalize_name(req.name),
                      {canonicalize_name(e) : e \in req.extras}>>,
     req |-> req]

\* Candidate.__init__
Candidate(identifier, f) == [identifier |-> identifier, file |-> f]

\* Candidate.__eq__: identifiers equal and files equal; WheelFile defines no
\* __eq__ of its own, so two files are equal when they are one object.
CandidateEq(c1, c2) == c1.identifier = c2.identifier /\ c1.file = c2.file

\* WheelProvider.identify
identify(requirement_or_candidate) == requirement_or_candidate.identifier

IsCompatibleTagsOnly(f) == \E tag \in File(f).tags : tag \in Range(scen.tags)

\* WheelFile.is_compatible
is_compatible(f) ==
    IF ~ \E tag \in File(f).tags : tag \in Range(scen.tags)
    THEN FALSE
    ELSE IF /\ File(f).details_requires_python # None
            /\ ~ Contains(File(f).details_requires_python[1], scen.python_version)
         THEN FALSE
         ELSE TRUE

IsSatisfiedByFileNoName(f, requirement) ==
    Contains(requirement.req.specifier, File(f).version)

IsSatisfiedByFileAnyVersion(f, requirement) ==
    File(f).name = canonicalize_name(requirement.req.name)

\* WheelProvider._is_satisfied_by_file
is_satisfied_by_file(f, requirement) ==
    /\ File(f).name = canonicalize_name(requirement.req.name)
    /\ Contains(requirement.req.specifier, File(f).version)

IsSatisfiedByRawIdentifier(requirement, candidate) ==
    /\ <<requirement.req.name, requirement.req.extras>> = candidate.identifier
    /\ is_satisfied_by_file(candidate.file, requirement)

\* WheelProvider.is_satisfied_by
is_satisfied_by(requirement, candidate) ==
    /\ requirement.identifier = candidate.identifier
    /\ is_satisfied_by_file(candidate.file, requirement)

MetadataAlwaysCompatible(f) == TRUE

\* WheelProvider._metadata_is_compatible
metadata_is_compatible(f) ==
    IF /\ File(f).requires_python # None
       /\ ~ Contains(File(f).requires_python[1], scen.python_version)
    THEN FALSE
    ELSE TRUE

\* The value candidate_sort_key has when it raises ValueError.
ValueError == <<>>

\* The 0-based index of the first entry of provider.tags that the wheel has.
tag_priority(f) ==
    CHOOSE i \in 0 .. Len(scen.tags) - 1 :
        /\ scen.tags[i + 1] \in File(f).tags
        /\ \A j \in 0 .. i - 1 : scen.tags[j + 1] \notin File(f).tags

SortKeyTagFirst(candidate) ==
    IF ~ \E tag \in Range(scen.tags) : tag \in File(candidate.file).tags
    THEN ValueError
    ELSE <<Len(scen.tags) - tag_priority(candidate.file),
           File(candidate.file).version>> \o File(candidate.file).build_tag

\* WheelProvider.candidate_sort_key: (version, tag rank, build tag or ()).
candidate_sort_key(candidate) ==
    IF ~ \E tag \in Range(scen.tags) : tag \in File(candidate.file).tags
    THEN ValueError
    ELSE <<File(candidate.file).version,
           Len(scen.tags) - tag_priority(candidate.file)>>
             \o File(candidate.file).build_tag

\* Python compares the key tuples (version, rank, build): the first two
\* parts are always there, so comparing the flattened keys is the same.
KeyLess(k1, k2) == SeqLess(k1, k2)

RECURSIVE InsertDescending(_, _)
\* c goes after every element whose key is >= its own: sorted(reverse=True)
\* is stable, equal keys keep the order they came in.
InsertDescending(sorted, c) ==
    IF sorted = <<>> THEN <<c>>
    ELSE IF KeyLess(candidate_sort_key(Head(sorted)), candidate_sort_key(c))
         THEN <<c>> \o sorted
         ELSE <<Head(sorted)>> \o InsertDescending(Tail(sorted), c)

RECURSIVE SortedFrom(_, _, _)
SortedFrom(cs, i, acc) ==
    IF i > Len(cs) THEN acc
    ELSE SortedFrom(cs, i + 1, InsertDescending(acc, cs[i]))

SortedAscending(cs) ==
    LET d == SortedFrom(cs, 1, <<>>)
    IN [i \in 1 .. Len(d) |-> d[Len(d) + 1 - i]]

AsListed(cs) == cs

\* sorted(filtered_candidates, key=self.candidate_sort_key, reverse=True)
sorted_candidates(cs) == SortedFrom(cs, 1, <<>>)


-----------------------------------------------------------------------------
(* The provider.  Its state p is a record:                                 *)
(*   cache       _project_files_cache: name -> list of files               *)
(*   fetched     the files whose metadata attribute is no longer None      *)
(*   markers     file -> the marker each requires_dist entry of its        *)
(*               metadata object holds now                                 *)
(*   availCalls  the names available_files was called with, in order       *)
(*   fetchCalls  the files handed to fetch_metadata, in order              *)

\* LocalWheelProvider.available_files: the whole listing, whatever the name.
available_files(name) == [i \in 1 .. Len(scen.files) |-> i]

\* fetch_metadata: the metadata is added in place to each file handed over,
\* every file having a metadata object of its own (as get_metadata_for_file
\* of the command line gives it one).
fetch_metadata(p, batch) ==
    [p EXCEPT !.fetched = @ \cup Range(batch),
              !.fetchCalls = @ \o batch]

\* The requires_dist entry i of file f as its metadata object holds it now.
Entry(p, f, i) == [File(f).requires_dist[i] EXCEPT !.marker = p.markers[f][i]]

\* WheelProvider.__init__ and the index before any call.
InitProvider(files) ==
    [cache |-> <<>>,
     fetched |-> {},
     markers |-> [f \in 1 .. Len(files) |->
                    [i \in 1 .. Len(files[f].requires_dist) |->
                        files[f].requires_dist[i].marker]],
     availCalls |-> <<>>,
     fetchCalls |-> <<>>]

\* incompatibilities.get(identifier, [])
GetOrEmpty(mapping, key) == IF key \in DOMAIN mapping THEN mapping[key] ELSE <<>>

RECURSIVE RequirementStage(_, _, _, _, _)
\* The loop of find_matches over the cached files from file k on: a file
\* passes when all() finds no requirement it fails among those the iterator
\* requirements[identifier] still gives.  all() stops at the first failure;
\* a one-shot iterator then stands behind it (at pos) for the next file, a
\* fresh one starts over.
RequirementStage(files, k, requirements, pos, oneshot) ==
    IF k > Len(files) THEN <<>>
    ELSE IF \A j \in (IF oneshot THEN pos ELSE 1) .. Len(requirements) :
                is_satisfied_by_file(files[k], requirements[j])
         THEN <<files[k]>> \o
              RequirementStage(files, k + 1, requirements, Len(requirements) + 1, oneshot)
         ELSE RequirementStage(files, k + 1, requirements,
                  1 + (CHOOSE j \in (IF oneshot THEN pos ELSE 1) .. Len(requirements) :
                          /\ ~ is_satisfied_by_file(files[k], requirements[j])
                          /\ \A i \in (IF oneshot THEN pos ELSE 1) .. j - 1 :
                                 is_satisfied_by_file(files[k], requirements[i])),
                  oneshot)

RECURSIVE IncompatibilityStage(_, _, _, _, _)
\* "c not in incompatibilities.get(identifier, [])" from candidate k on: the
\* search stops at the first equal candidate; a one-shot iterator then
\* stands behind it (at pos) for the next candidate.
IncompatibilityStage(candidates, k, incompatible, pos, oneshot) ==
    IF k > Len(candidates) THEN <<>>
    ELSE IF \A j \in (IF oneshot THEN pos ELSE 1) .. Len(incompatible) :
                ~ CandidateEq(candidates[k], incompatible[j])
         THEN <<candidates[k]>> \o
              IncompatibilityStage(candidates, k + 1, incompatible,
                                   Len(incompatible) + 1, oneshot)
         ELSE IncompatibilityStage(candidates, k + 1, incompatible,
                  1 + (CHOOSE j \in (IF oneshot THEN pos ELSE 1) .. Len(incompatible) :
                          /\ CandidateEq(candidates[k], incompatible[j])
                          /\ \A i \in (IF oneshot THEN pos ELSE 1) .. j - 1 :
                                 ~ CandidateEq(candidates[k], incompatible[i])),
                  oneshot)

FindMatchesNoCache(p, identifier, requirements, incompatibilities, oneshot) ==
    LET name == identifier[1]
        p1 == [p EXCEPT !.cache = [n \in DOMAIN @ \cup {name} |->
                                     IF n = name THEN Filter(available_files(name), is_compatible)
                                     ELSE @[n]],
                        !.availCalls = Append(@, name)]
        files == p1.cache[name]
        filtered_files ==
            IF identifier \notin DOMAIN requirements THEN <<>>
            ELSE RequirementStage(files, 1, requirements[identifier], 1, oneshot)
        p2 == fetch_metadata(p1, Filter(filtered_files, LAMBDA f : f \notin p1.fetched))
        fully_filtered_files == Filter(filtered_files, metadata_is_compatible)
        candidates == [i \in 1 .. Len(fully_filtered_files) |->
                          Candidate(identifier, fully_filtered_files[i])]
        filtered_candidates ==
            IncompatibilityStage(candidates, 1, GetOrEmpty(incompatibilities, identifier),
                                 1, oneshot)
    IN  [prov |-> p2,
         matches |-> sorted_candidates(filtered_candidates),
         raised |-> FALSE]

FindMatchesFetchAll(p, identifier, requirements, incompatibilities, oneshot) ==
    LET name == identifier[1]
        p1 == IF name \in DOMAIN p.cache THEN p
              ELSE [p EXCEPT !.cache = @ @@ (name :> Filter(available_files(name), is_compatible)),
                             !.availCalls = Append(@, name)]
        files == p1.cache[name]
        filtered_files ==
            IF identifier \notin DOMAIN requirements THEN <<>>
            ELSE RequirementStage(files, 1, requirements[identifier], 1, oneshot)
        p2 == fetch_metadata(p1, filtered_files)
        fully_filtered_files == Filter(filtered_files, metadata_is_compatible)
        candidates == [i \in 1 .. Len(fully_filtered_files) |->
                          Candidate(identifier, fully_filtered_files[i])]
        filtered_candidates ==
            IncompatibilityStage(candidates, 1, GetOrEmpty(incompatibilities, identifier),
                                 1, oneshot)
    IN  [prov |-> p2,
         matches |-> sorted_candidates(filtered_candidates),
         raised |-> FALSE]

\* WheelProvider.find_matches.  requirements and incompatibilities map an
\* identifier to what iterating its entry gives.  oneshot tells what a
\* lookup returns: FALSE for the engine's IteratorMapping, where each lookup
\* is a fresh iterator, TRUE for a dict of iterators, where every lookup is
\* the same iterator and what one file consumed is gone for the next.
find_matches(p, identifier, requirements, incompatibilities, oneshot) ==
    LET name == identifier[1]
        p1 == IF name \in DOMAIN p.cache THEN p
              ELSE [p EXCEPT !.cache = @ @@ (name :> Filter(available_files(name), is_compatible)),
                             !.availCalls = Append(@, name)]
        files == p1.cache[name]
        filtered_files ==
            IF identifier \notin DOMAIN requirements THEN <<>>
            ELSE RequirementStage(files, 1, requirements[identifier], 1, oneshot)
        missing_metadata == Filter(filtered_files, LAMBDA f : f \notin p1.fetched)
        p2 == fetch_metadata(p1, missing_metadata)
        fully_filtered_files == Filter(filtered_files, metadata_is_compatible)
        candidates == [i \in 1 .. Len(fully_filtered_files) |->
                          Candidate(identifier, fully_filtered_files[i])]
        filtered_candidates ==
            IncompatibilityStage(candidates, 1, GetOrEmpty(incompatibilities, identifier),
                                 1, oneshot)
    IN  [prov |-> p2,
         matches |-> sorted_candidates(filtered_candidates),
         raised |-> \E i \in DOMAIN filtered_candidates :
                        candidate_sort_key(filtered_candidates[i]) = ValueError]

SelfPinUnversioned(candidate) ==
    Requirement([name |-> candidate.identifier[1], extras |-> {},
                 specifier |-> <<>>, marker |-> None])

\* The synthesized requirement "{name}=={version}" of a candidate with extras.
SelfPin(candidate) ==
    Requirement([name |-> candidate.identifier[1],
                 extras |-> {},
                 specifier |-> <<[op |-> "==", v |-> File(candidate.file).version]>>,
                 marker |-> None])

IncludedIgnoringExtras(marker, extras) ==
    IF marker = None THEN TRUE
    ELSE MarkerEvaluate(marker[1], scen.environment, NoExtra)

\* The test get_dependencies applies to one requires_dist entry.
Included(marker, extras) ==
    IF marker = None THEN TRUE
    ELSE IF MarkerEvaluate(marker[1], scen.environment, NoExtra) THEN TRUE
    ELSE /\ extras # {}
         /\ \E extra \in extras : MarkerEvaluate(marker[1], scen.environment, extra)

GetDependenciesNoSelfPin(p, candidate) ==
    LET f == candidate.file
        extras == candidate.identifier[2]
        picked == Filter([i \in 1 .. Len(File(f).requires_dist) |-> i],
                         LAMBDA i : Included(p.markers[f][i], extras))
    IN  [prov |-> [p EXCEPT !.markers[f] =
                      [i \in DOMAIN @ |-> IF i \in Range(picked) THEN None ELSE @[i]]],
         requirements |->
             [k \in 1 .. Len(picked) |->
                 Requirement([Entry(p, f, picked[k]) EXCEPT !.marker = None])]]

GetDependenciesSelfPinLast(p, candidate) ==
    LET f == candidate.file
        extras == candidate.identifier[2]
        picked == Filter([i \in 1 .. Len(File(f).requires_dist) |-> i],
                         LAMBDA i : Included(p.markers[f][i], extras))
    IN  [prov |-> [p EXCEPT !.markers[f] =
                      [i \in DOMAIN @ |-> IF i \in Range(picked) THEN None ELSE @[i]]],
         requirements |->
             [k \in 1 .. Len(picked) |->
                 Requirement([Entry(p, f, picked[Len(picked) + 1 - k]) EXCEPT !.marker = None])]
             \o (IF extras # {} THEN <<SelfPin(candidate)>> ELSE <<>>)]

\* WheelProvider.get_dependencies.  The returned requirements wrap the
\* metadata's own entries, so "requirement.req.marker = None" clears the
\* marker of every included entry in the metadata object itself.
get_dependencies(p, candidate) ==
    LET f == candidate.file
        extras == candidate.identifier[2]
        self_pin == IF extras # {} THEN <<SelfPin(candidate)>> ELSE <<>>
        picked == Filter([i \in 1 .. Len(File(f).requires_dist) |-> i],
                         LAMBDA i : Included(p.markers[f][i], extras))
    IN  [prov |-> [p EXCEPT !.markers[f] =
                      [i \in DOMAIN @ |-> IF i \in Range(picked) THEN None ELSE @[i]]],
         requirements |->
             self_pin \o
             [k \in 1 .. Len(picked) |->
                 Requirement([Entry(p, f, picked[k]) EXCEPT !.marker = None])]]

PreferenceConstant(identifier, candidates) == 0

\* WheelProvider.get_preference: the number of candidates left for the identifier.
get_preference(identifier, candidates) == Len(candidates[identifier])


-----------------------------------------------------------------------------
(* The engine: resolvelib's Resolution, which resolve() of src/__main__.py *)
(* and the TestResolution tests run the provider under.                    *)
(*   criteria   a dict in insertion order: [keys, at]                      *)
(*   criterion  [candidates, information, incompatibilities]               *)
(*   mapping    an OrderedDict: a sequence of [key, candidate]             *)
(*   state      [mapping, criteria]                                        *)

EmptyDict == [keys |-> <<>>, at |-> <<>>]

DictSet(d, k, v) ==
    IF k \in DOMAIN d.at
    THEN [keys |-> d.keys, at |-> [d.at EXCEPT ![k] = v]]
    ELSE [keys |-> Append(d.keys, k), at |-> d.at @@ (k :> v)]

NoCriterion == [candidates |-> <<>>, information |-> <<>>, incompatibilities |-> <<>>]

\* Criterion.iter_requirement
iter_requirement(criterion) ==
    [i \in DOMAIN criterion.information |-> criterion.information[i].requirement]

\* IteratorMapping(criteria, iter_requirement, appends)
RequirementsMapping(criteria, appends) ==
    [k \in DOMAIN criteria.at \cup DOMAIN appends |->
        (IF k \in DOMAIN criteria.at THEN iter_requirement(criteria.at[k]) ELSE <<>>)
        \o GetOrEmpty(appends, k)]

\* IteratorMapping(criteria, attrgetter("incompatibilities"), appends)
IncompatibilitiesMapping(criteria, appends) ==
    [k \in DOMAIN criteria.at \cup DOMAIN appends |->
        (IF k \in DOMAIN criteria.at THEN criteria.at[k].incompatibilities ELSE <<>>)
        \o GetOrEmpty(appends, k)]

\* The criterion _add_to_criteria builds from what find_matches returned.
AddToCriteriaResult(fm, criteria, identifier, requirement, parent) ==
    [prov |-> fm.prov,
     conflict |-> fm.matches = <<>>,
     criterion |->
         [candidates |-> fm.matches,
          information |->
              (IF identifier \in DOMAIN criteria.at
               THEN criteria.at[identifier].information ELSE <<>>)
              \o <<[requirement |-> requirement, parent |-> parent]>>,
          incompatibilities |->
              IF identifier \in DOMAIN criteria.at
              THEN criteria.at[identifier].incompatibilities ELSE <<>>],
     criteria |->
         IF fm.matches = <<>> THEN criteria
         ELSE DictSet(criteria, identifier,
                  [candidates |-> fm.matches,
                   information |->
                       (IF identifier \in DOMAIN criteria.at
                        THEN criteria.at[identifier].information ELSE <<>>)
                       \o <<[requirement |-> requirement, parent |-> parent]>>,
                   incompatibilities |->
                       IF identifier \in DOMAIN criteria.at
                       THEN criteria.at[identifier].incompatibilities ELSE <<>>])]

\* Resolution._add_to_criteria; conflict stands for RequirementsConflicted.
add_to_criteria(p, criteria, requirement, parent) ==
    AddToCriteriaResult(
        find_matches(p, identify(requirement),
            RequirementsMapping(criteria, identify(requirement) :> <<requirement>>),
            IncompatibilitiesMapping(criteria,
                identify(requirement) :>
                    (IF identify(requirement) \in DOMAIN criteria.at
                     THEN criteria.at[identify(requirement)].incompatibilities
                     ELSE <<>>)),
            FALSE),
        criteria, identify(requirement), requirement, parent)

RECURSIVE AddAllFrom(_, _, _, _)
\* The loop of _get_updated_criteria and of resolve's root requirements:
\* it stops at the first requirement that conflicts.
AddAllFrom(r, requirements, i, parent) ==
    IF r.conflict \/ i > Len(requirements) THEN r
    ELSE AddAllFrom(add_to_criteria(r.prov, r.criteria, requirements[i], parent),
                    requirements, i + 1, parent)

AddAll(p, criteria, requirements, parent) ==
    AddAllFrom([prov |-> p, conflict |-> FALSE, criterion |-> NoCriterion,
                criteria |-> criteria],
               requirements, 1, parent)

AddDependencies(deps, criteria, candidate) ==
    AddAll(deps.prov, criteria, deps.requirements, Some(candidate))

\* Resolution._get_updated_criteria
get_updated_criteria(p, criteria, candidate) ==
    AddDependencies(get_dependencies(p, candidate), criteria, candidate)

MappingHas(mapping, k) == \E i \in DOMAIN mapping : mapping[i].key = k

MappingGet(mapping, k) ==
    mapping[CHOOSE i \in DOMAIN mapping : mapping[i].key = k].candidate

\* mapping.pop(name, None); mapping[name] = candidate
MappingPin(mapping, name, candidate) ==
    Append(Filter(mapping, LAMBDA e : e.key # name),
           [key |-> name, candidate |-> candidate])

\* Resolution._is_current_pin_satisfying
is_current_pin_satisfying(state, name, criterion) ==
    /\ MappingHas(state.mapping, name)
    /\ \A i \in DOMAIN criterion.information :
           is_satisfied_by(criterion.information[i].requirement,
                           MappingGet(state.mapping, name))

RECURSIVE TryCandidates(_, _, _, _, _)
RECURSIVE TryCandidate(_, _, _, _, _)

\* One candidate of _attempt_to_pin_criterion, given its updated criteria
\* u: rejected when they conflict, pinned otherwise.
TryCandidate(u, state, name, i, causes) ==
    IF u.conflict
    THEN TryCandidates(u.prov, state, name, i + 1, Append(causes, u.criterion))
    ELSE [prov |-> u.prov, pinned |-> TRUE,
          inconsistent |->
              ~ \A j \in DOMAIN state.criteria.at[name].information :
                  is_satisfied_by(state.criteria.at[name].information[j].requirement,
                                  state.criteria.at[name].candidates[i]),
          state |-> [mapping |-> MappingPin(state.mapping, name,
                                            state.criteria.at[name].candidates[i]),
                     criteria |-> u.criteria],
          causes |-> <<>>,
          candidate |-> Some(state.criteria.at[name].candidates[i]),
          rejected |-> i - 1]

\* Resolution._attempt_to_pin_criterion from candidate i on: the candidates
\* in order, the first whose dependencies can all be added is pinned.
TryCandidates(p, state, name, i, causes) ==
    IF i > Len(state.criteria.at[name].candidates)
    THEN [prov |-> p, pinned |-> FALSE, inconsistent |-> FALSE,
          state |-> state, causes |-> causes, candidate |-> None, rejected |-> i - 1]
    ELSE TryCandidate(
             get_updated_criteria(p, state.criteria, state.criteria.at[name].candidates[i]),
             state, name, i, causes)

attempt_to_pin_criterion(p, state, name) == TryCandidates(p, state, name, 1, <<>>)

\* Resolution._remove_information_from_criteria
remove_information_from_criteria(criteria, parents) ==
    IF parents = {} THEN criteria
    ELSE [keys |-> criteria.keys,
          at |-> [k \in DOMAIN criteria.at |->
                    [criteria.at[k] EXCEPT !.information =
                        Filter(@, LAMBDA info :
                            \/ info.parent = None
                            \/ identify(info.parent[1]) \notin parents)]]]

\* The criteria whose current pin does not satisfy them, in dict order.
unsatisfied_names(state) ==
    Filter(state.criteria.keys, LAMBDA k :
        ~ is_current_pin_satisfying(state, k, state.criteria.at[k]))

\* min(unsatisfied_names, key=self._get_preference): the first of the smallest.
most_preferred(state, names) ==
    LET candidates == [k \in DOMAIN state.criteria.at |-> state.criteria.at[k].candidates]
        i == CHOOSE i \in DOMAIN names :
                /\ \A j \in DOMAIN names :
                       get_preference(names[i], candidates) <= get_preference(names[j], candidates)
                /\ \A j \in 1 .. i - 1 :
                       get_preference(names[j], candidates) > get_preference(names[i], candidates)
    IN  names[i]


RECURSIVE PatchCriteria(_, _, _, _)
RECURSIVE PatchCriterion(_, _, _, _, _)

\* One entry of _patch_criteria, given what find_matches returned for it.
PatchCriterion(fm, state, from_broken, i, k) ==
    IF fm.matches = <<>>
    THEN [prov |-> fm.prov, success |-> FALSE, state |-> state]
    ELSE PatchCriteria(fm.prov,
             [state EXCEPT !.criteria = DictSet(@, k,
                 [candidates |-> fm.matches,
                  information |-> state.criteria.at[k].information,
                  incompatibilities |->
                      from_broken[i].incompatibilities
                      \o state.criteria.at[k].incompatibilities])],
             from_broken, i + 1)

\* _patch_criteria of Resolution._backjump: apply the incompatibilities
\* gathered in the broken state to the state pushed in its place.
PatchCriteria(p, state, from_broken, i) ==
    IF i > Len(from_broken) THEN [prov |-> p, success |-> TRUE, state |-> state]
    ELSE IF \/ from_broken[i].incompatibilities = <<>>
            \/ from_broken[i].key \notin DOMAIN state.criteria.at
         THEN PatchCriteria(p, state, from_broken, i + 1)
         ELSE PatchCriterion(
                  find_matches(p, from_broken[i].key,
                      RequirementsMapping(state.criteria, <<>>),
                      IncompatibilitiesMapping(state.criteria,
                          from_broken[i].key :> from_broken[i].incompatibilities),
                      FALSE),
                  state, from_broken, i, from_broken[i].key)

RECURSIVE FindBroken(_, _, _)
RECURSIVE FindBrokenWith(_, _, _)

\* One state of the inner loop of _backjump, given the dependencies of its
\* last pin.
FindBrokenWith(deps, sts, incompatible_deps) ==
    IF {identify(r) : r \in Range(deps.requirements)} \cap incompatible_deps # {}
    THEN [raised |-> FALSE, prov |-> deps.prov,
          states |-> SubSeq(sts, 1, Len(sts) - 1),
          broken |-> <<sts[Len(sts)]>>,
          last |-> Some(sts[Len(sts)].mapping[Len(sts[Len(sts)].mapping)])]
    ELSE FindBroken(deps.prov, SubSeq(sts, 1, Len(sts) - 1), incompatible_deps)

\* The inner loop of _backjump: pop states until the last pin of one
\* depends on an identifier of the conflict; raised stands for the
\* ResolutionImpossible raised when no state is left to pop (IndexError)
\* or when the state just popped has no pin (KeyError): that state is
\* gone from the stack all the same.
FindBroken(p, sts, incompatible_deps) ==
    IF sts = <<>>
    THEN [raised |-> TRUE, prov |-> p, states |-> sts, broken |-> <<>>, last |-> None]
    ELSE IF sts[Len(sts)].mapping = <<>>
    THEN [raised |-> TRUE, prov |-> p, states |-> SubSeq(sts, 1, Len(sts) - 1),
          broken |-> <<>>, last |-> None]
    ELSE FindBrokenWith(
             get_dependencies(p, sts[Len(sts)].mapping[Len(sts[Len(sts)].mapping)].candidate),
             sts, incompatible_deps)

\* incompatibilities_from_broken of _backjump.
FromBroken(broken, last) ==
    [i \in 1 .. Len(broken.criteria.keys) |->
        [key |-> broken.criteria.keys[i],
         incompatibilities |->
             broken.criteria.at[broken.criteria.keys[i]].incompatibilities]]
    \o <<[key |-> last.key, incompatibilities |-> <<last.candidate>>]>>

RECURSIVE Backjump(_, _, _)
RECURSIVE BackjumpPatched(_, _, _)
RECURSIVE BackjumpBroken(_, _)

\* The end of one iteration of _backjump, given the patched state.
BackjumpPatched(patched, sts, incompatible_deps) ==
    IF patched.success
    THEN [prov |-> patched.prov, states |-> Append(sts, patched.state), outcome |-> "ok"]
    ELSE Backjump(patched.prov, Append(sts, patched.state), incompatible_deps)

\* One iteration of _backjump, given the broken state found.
BackjumpBroken(fb, incompatible_deps) ==
    IF fb.raised
    THEN [prov |-> fb.prov, states |-> fb.states, outcome |-> "impossible"]
    ELSE BackjumpPatched(
             PatchCriteria(fb.prov, fb.states[Len(fb.states)],
                           FromBroken(fb.broken[1], fb.last[1]), 1),
             fb.states, incompatible_deps)

\* Resolution._backjump: outcome "ok" (returns True), "fail" (returns
\* False) or "impossible" (raises ResolutionImpossible).
Backjump(p, sts, incompatible_deps) ==
    IF Len(sts) < 3 THEN [prov |-> p, states |-> sts, outcome |-> "fail"]
    ELSE BackjumpBroken(FindBroken(p, SubSeq(sts, 1, Len(sts) - 1), incompatible_deps),
                        incompatible_deps)

\* The identifiers of the causes' parents and requirements.
IncompatibleDeps(failure_causes) ==
    UNION {{identify(info.requirement) : info \in Range(c.information)} \cup
           {identify(info.parent[1]) :
               info \in {x \in Range(c.information) : x.parent # None}}
           : c \in Range(failure_causes)}

RECURSIVE Connected(_, _)
\* _has_route_to_root: the criteria reachable from the root through the
\* parents that are pinned.
Connected(state, connected) ==
    LET more == {k \in DOMAIN state.criteria.at :
                    \E info \in Range(state.criteria.at[k].information) :
                        \/ info.parent = None
                        \/ \E e \in Range(state.mapping) :
                               e.candidate = info.parent[1] /\ e.key \in connected}
    IN  IF more \subseteq connected THEN connected
        ELSE Connected(state, connected \cup more)

\* _build_result: the pins connected to the root, in pin order.
build_result(state) ==
    Filter(state.mapping, LAMBDA e : e.key \in Connected(state, {}))


-----------------------------------------------------------------------------
(* The inputs: an index of wheel files with their metadata, an environment *)
(* and the top-level requirements.                                         *)

\* The longest requires_dist list of a file whose dependencies vary.
MaxDeps == 2

Req(name, extras, specifier, marker) ==
    [name |-> name, extras |-> extras, specifier |-> specifier, marker |-> marker]

Pin(v) == <<[op |-> "==", v |-> v]>>

AtLeast(v) == <<[op |-> ">=", v |-> v]>>

IfExtra(e) == Some([var |-> "", val |-> "", extra |-> e])

IfPlatform(val) == Some([var |-> "sys_platform", val |-> val, extra |-> NoExtra])

WheelFile(name, version, build_tag, tags, details_requires_python, requires_python, requires_dist) ==
    [name |-> name, version |-> version, build_tag |-> build_tag, tags |-> tags,
     details_requires_python |-> details_requires_python,
     requires_python |-> requires_python,
     requires_dist |-> requires_dist]

\* The sequences of distinct elements of S of length at most n.
RECURSIVE ListsUpTo(_, _)
ListsUpTo(S, n) ==
    IF n = 0 THEN {<<>>}
    ELSE LET shorter == ListsUpTo(S, n - 1)
         IN  shorter \cup
             {Append(l, x) : <<l, x>> \in
                 {y \in shorter \X S : Len(y[1]) = n - 1 /\ y[2] \notin Range(y[1])}}

\* requires_dist entries the files draw from.
DepB == Req(<<"b">>, {}, <<>>, None)
DepBExtra == Req(<<"B">>, {<<"E">>}, <<>>, None)
DepBOld == Req(<<"b">>, {}, Pin(1), None)
DepZ == Req(<<"z">>, {}, <<>>, None)
DepCIfExtra == Req(<<"c">>, {}, <<>>, IfExtra(<<"e">>))
DepZIfExtra == Req(<<"z">>, {}, <<>>, IfExtra(<<"e">>))
DepCNew == Req(<<"c">>, {}, AtLeast(2), None)
DepZIfWindows == Req(<<"z">>, {}, <<>>, IfPlatform("win32"))

\* Top-level requirements the driver draws from.
RootA == Req(<<"A">>, {}, <<>>, None)
RootB == Req(<<"b">>, {}, <<>>, None)
RootBExtra == Req(<<"b">>, {<<"e">>}, <<>>, None)
RootBOther == Req(<<"b">>, {<<"F">>}, <<>>, None)
RootBOld == Req(<<"b">>, {}, Pin(1), None)
RootZIfWindows == Req(<<"z">>, {}, <<>>, IfPlatform("win32"))
RootC == Req(<<"c">>, {}, AtLeast(2), None)

RootEntries == {RootA, RootB, RootBExtra, RootBOther, RootBOld, RootZIfWindows, RootC}

\* No top-level requirement, one, or two different ones in either order.
RootLists ==
    {<<>>} \cup {<<r>> : r \in RootEntries}
           \cup {<<r[1], r[2]>> : r \in {x \in RootEntries \X RootEntries : x[1] # x[2]}}

\* The index: a (3 unusable, 2, 1), b (3 unusable, 2, 1), c (2 unusable
\* once its metadata is read, 1 with and without a build tag).
Index(a2, a1, b2, b1) ==
    << WheelFile(<<"a">>, 3, <<>>, {"t9"}, None, None, <<>>),
       WheelFile(<<"a">>, 1, <<>>, {"t1"}, None, None, a1),
       WheelFile(<<"a">>, 2, <<>>, {"t2"}, Some(AtLeast(1)), None, a2),
       WheelFile(<<"b">>, 3, <<>>, {"t1"}, Some(AtLeast(3)), None, <<>>),
       WheelFile(<<"b">>, 1, <<>>, {"t1", "t2"}, None, Some(AtLeast(2)), b1),
       WheelFile(<<"b">>, 2, <<>>, {"t2"}, None, None, b2),
       WheelFile(<<"c">>, 2, <<>>, {"t1"}, None, Some(AtLeast(3)), <<>>),
       WheelFile(<<"c">>, 1, <<>>, {"t1"}, None, None, <<>>),
       WheelFile(<<"c">>, 1, <<1, 0>>, {"t2"}, None, None, <<>>) >>

Scenarios ==
    { [files |-> Index(a2, a1, b2, b1),
       tags |-> <<"t1", "t2">>,
       python_version |-> 2,
       environment |-> [sys_platform |-> "linux"],
       roots |-> roots] :
        a2 \in ListsUpTo({DepBExtra, DepZ}, MaxDeps),
        a1 \in ListsUpTo({DepB}, MaxDeps),
        b2 \in ListsUpTo({DepCIfExtra, DepZIfExtra, DepCNew}, MaxDeps),
        b1 \in ListsUpTo({DepZIfExtra, DepZIfWindows}, MaxDeps),
        roots \in RootLists }

-----------------------------------------------------------------------------
(* A resolver run: resolve() of src/__main__.py.                           *)

\* The requirements resolve() hands to the resolver: those without a marker
\* or whose marker is true under the environment.
TopLevel(sc) ==
    LET kept == Filter(sc.roots, LAMBDA r :
                    r.marker = None \/ MarkerEvaluate(r.marker[1], sc.environment, NoExtra))
    IN  [i \in 1 .. Len(kept) |-> Requirement(kept[i])]

NoRound == [kind |-> "none", name |-> None, candidate |-> None,
            candidates |-> <<>>, rejected |-> 0]

\* What the run has done so far: the candidates it pinned at some time, the
\* last round, how many candidates it rejected, how often it backtracked,
\* how often it pinned a name that already had a pin, and the rounds made.
NoLog == [committed |-> {}, last |-> NoRound, rejected |-> 0, backjumps |-> 0, repins |-> 0,
          rounds |-> 0]

\* The rounds a run may take: resolve(requirements, max_rounds) gives up
\* with ResolutionTooDeep after max_rounds rounds, 100 unless the caller
\* says otherwise, and no caller does.
MaxRounds == 100

Init ==
    /\ scen \in Scenarios
    /\ prov = InitProvider(scen.files)
    /\ states = <<>>
    /\ pc = "init"
    /\ result = None
    /\ log = NoLog

\* The root state, given the criteria of the top-level requirements.
StartWith(r) ==
    /\ prov' = r.prov
    /\ IF r.conflict
       THEN /\ pc' = "impossible"
            /\ states' = <<[mapping |-> <<>>, criteria |-> r.criteria]>>
       ELSE /\ pc' = "running"
            /\ states' = <<[mapping |-> <<>>, criteria |-> r.criteria],
                           [mapping |-> <<>>, criteria |-> r.criteria]>>

\* Resolution.resolve up to its first round: the root state holds the
\* criteria of the top-level requirements; a requirement without candidates
\* raises ResolutionImpossible.
Start ==
    /\ pc = "init"
    /\ StartWith(AddAll(prov, EmptyDict, TopLevel(scen), None))
    /\ UNCHANGED <<scen, result, log>>

Top == states[Len(states)]

\* A round that finds every criterion satisfied by its pin: the result.
RoundDone ==
    /\ pc = "running"
    /\ log.rounds < MaxRounds
    /\ unsatisfied_names(Top) = <<>>
    /\ pc' = "done"
    /\ result' = Some(build_result(Top))
    /\ UNCHANGED <<scen, prov, states, log>>

\* The state after a pin: the criteria of the names the pin made
\* unsatisfied lose the information those names gave.
AfterPin(state, satisfied_names) ==
    [state EXCEPT !.criteria =
        remove_information_from_criteria(@,
            {k \in satisfied_names :
                ~ is_current_pin_satisfying(state, k, state.criteria.at[k])})]

LastRound(kind, name, a) ==
    [kind |-> kind, name |-> Some(name), candidate |-> a.candidate,
     candidates |-> Top.criteria.at[name].candidates, rejected |-> a.rejected]

\* The outcome of a round, given the attempt a to pin name and, when the
\* attempt failed, the backjump b.
PinWith(a, name, names) ==
    /\ a.causes = <<>>
    /\ prov' = a.prov
    /\ IF a.inconsistent
       THEN pc' = "inconsistent" /\ states' = states
       ELSE /\ pc' = "running"
            /\ states' = SubSeq(states, 1, Len(states) - 1)
                           \o <<AfterPin(a.state, DOMAIN Top.criteria.at \ Range(names)),
                                AfterPin(a.state, DOMAIN Top.criteria.at \ Range(names))>>
    /\ log' = [committed |-> log.committed \cup Range(a.candidate),
               last |-> LastRound("pin", name, a),
               rejected |-> log.rejected + a.rejected,
               backjumps |-> log.backjumps,
               repins |-> log.repins + (IF MappingHas(Top.mapping, name) THEN 1 ELSE 0),
               rounds |-> log.rounds + 1]

BackjumpWith(b, a, name, ok) ==
    /\ (b.outcome = "ok") = ok
    /\ prov' = b.prov
    /\ states' = b.states
    /\ pc' = IF ok THEN "running" ELSE "impossible"
    /\ log' = [log EXCEPT !.last =
                      LastRound(IF ok THEN "backjump" ELSE "impossible", name, a),
                  !.rejected = @ + a.rejected,
                  !.backjumps = @ + 1,
                  !.rounds = @ + 1]

FailWith(a, name, ok) ==
    /\ a.causes # <<>>
    /\ BackjumpWith(Backjump(a.prov, states, IncompatibleDeps(a.causes)), a, name, ok)

NameToPin == most_preferred(Top, unsatisfied_names(Top))

\* A round that pins a candidate and pushes a new state.
RoundPin ==
    /\ pc = "running"
    /\ log.rounds < MaxRounds
    /\ unsatisfied_names(Top) # <<>>
    /\ PinWith(attempt_to_pin_criterion(prov, Top, NameToPin), NameToPin,
               unsatisfied_names(Top))
    /\ UNCHANGED <<scen, result>>

\* A round in which no candidate can be pinned and the backjump succeeds.
RoundBackjump ==
    /\ pc = "running"
    /\ log.rounds < MaxRounds
    /\ unsatisfied_names(Top) # <<>>
    /\ FailWith(attempt_to_pin_criterion(prov, Top, NameToPin), NameToPin, TRUE)
    /\ UNCHANGED <<scen, result>>

\* A round in which no candidate can be pinned and nothing is left to
\* backtrack to: ResolutionImpossible.
RoundImpossible ==
    /\ pc = "running"
    /\ log.rounds < MaxRounds
    /\ unsatisfied_names(Top) # <<>>
    /\ FailWith(attempt_to_pin_criterion(prov, Top, NameToPin), NameToPin, FALSE)
    /\ UNCHANGED <<scen, result>>

\* The loop over the rounds has run out: ResolutionTooDeep.
RoundTooDeep ==
    /\ pc = "running"
    /\ log.rounds = MaxRounds
    /\ pc' = "too_deep"
    /\ UNCHANGED <<scen, prov, states, result, log>>

\* The steps of a run over an index on which no run gets to max_rounds
\* rounds (RoundsLeft).
Next == Start \/ RoundDone \/ RoundPin \/ RoundBackjump \/ RoundImpossible

Spec == Init /\ [][Next]_vars

-----------------------------------------------------------------------------
(* The provider of src/__main__.py.                                        *)

\* PyPIProvider(**keywords): the class inherits WheelProvider.__init__,
\* whose parameters python_version, environment and tags are keyword-only.
\* A keyword outside its signature is a TypeError; an environment given
\* without python_version is asked for its "python_version" and raises
\* KeyError when it has none; without an environment the running
\* interpreter supplies both. No provider is made when it raises.
PyPIProvider(keywords, files) ==
    IF ~ (keywords \subseteq {"python_version", "environment", "tags"})
    THEN [raised |-> "TypeError", provider |-> None]
    ELSE IF /\ "environment" \in keywords
            /\ "python_version" \notin keywords
            /\ "python_version" \notin DOMAIN scen.environment
    THEN [raised |-> "KeyError", provider |-> None]
    ELSE [raised |-> "", provider |-> Some(InitProvider(files))]

-----------------------------------------------------------------------------
(* Runs followed to their end.                                             *)

\* The top-level requirements of the runs followed to their end: those that
\* make the resolver backtrack most.
LiveRoots == {<<RootA>>, <<RootA, RootB>>, <<RootA, RootBOther>>, <<RootBOther, RootBExtra>>}

\* A chain of n distributions, each a single wheel that requires the next.
Digits == <<"0", "1", "2", "3", "4", "5", "6", "7", "8", "9">>

ChainName(k) ==
    <<"n", Digits[(k \div 100) + 1], Digits[((k \div 10) % 10) + 1], Digits[(k % 10) + 1]>>

ChainIndex(n) ==
    [k \in 1 .. n |->
        WheelFile(ChainName(k), 1, <<>>, {"t1"}, None, None,
                  IF k < n THEN <<Req(ChainName(k + 1), {}, <<>>, None)>> ELSE <<>>)]

\* The chains whose resolution takes the last round the loop has, and one
\* round more than it has.
ChainScenarios ==
    { [files |-> ChainIndex(n),
       tags |-> <<"t1", "t2">>,
       python_version |-> 2,
       environment |-> [sys_platform |-> "linux"],
       roots |-> <<Req(ChainName(1), {}, <<>>, None)>>] : n \in {MaxRounds - 1, MaxRounds} }

InitLive ==
    /\ scen \in {sc \in Scenarios : sc.roots \in LiveRoots} \cup ChainScenarios
    /\ prov = InitProvider(scen.files)
    /\ states = <<>>
    /\ pc = "init"
    /\ result = None
    /\ log = NoLog

NextLive == Next \/ RoundTooDeep

\* The run is at a step of resolve(): before the root state is built, or at
\* a round of the loop, or past its last round. Exactly then a step of
\* NextLive can be taken.
Busy == pc \in {"init", "running"}

\* resolve() is one sequential loop, so a step that can be taken is taken:
\* weak fairness of NextLive, with the enabling condition of the rounds
\* written out as Busy.
SpecLive ==
    /\ InitLive
    /\ [][NextLive]_vars
    /\ WF_vars(RoundTooDeep)
    /\ ([]<>(~ Busy) \/ []<><<NextLive>>_vars)

-----------------------------------------------------------------------------
(* Direct calls of the provider's methods on one provider object, the way  *)
(* the tests of src/tests/test_resolve.py make them.                       *)

DepC == Req(<<"c">>, {}, <<>>, None)
DepCIfLinux == Req(<<"c">>, {}, <<>>, IfPlatform("linux"))
DepCIfOther == Req(<<"c">>, {}, <<>>, IfExtra(<<"f">>))

\* requires_dist entries of the file whose dependencies vary: without a
\* marker, with a marker that is true, one that is false, and one per extra.
CallEntries == {DepC, DepCIfLinux, DepZIfWindows, DepZIfExtra, DepCIfOther}

\* The index of the direct calls: wheels of b that differ in version, tags
\* and build tag, one that matches no tag, and one wheel of c.
CallIndex(deps) ==
    << WheelFile(<<"b">>, 1, <<>>, {"t1"}, None, None, <<>>),
       WheelFile(<<"b">>, 2, <<>>, {"t2"}, None, None, deps),
       WheelFile(<<"b">>, 1, <<1, 0>>, {"t1", "t2"}, None, None, <<>>),
       WheelFile(<<"b">>, 1, <<2, 0>>, {"t1"}, None, None, <<>>),
       WheelFile(<<"b">>, 1, <<1, 0>>, {"t2"}, None, None, <<>>),
       WheelFile(<<"b">>, 3, <<>>, {"t9"}, None, None, <<>>),
       WheelFile(<<"c">>, 1, <<>>, {"t1", "t2"}, None, None, <<>>) >>

CallScenarios ==
    { [files |-> CallIndex(deps),
       tags |-> <<"t1", "t2">>,
       python_version |-> 2,
       environment |-> [sys_platform |-> "linux"],
       roots |-> <<>>] : deps \in ListsUpTo(CallEntries, MaxDeps) }

\* The extras sets of the identifiers the calls use.
CallExtras == {{}, {<<"e">>}, {<<"f">>}, {<<"e">>, <<"f">>}}

\* The requirements is_satisfied_by is called with.
CallRequirements ==
    { Requirement(Req(name, extras, specifier, None)) :
        name \in {<<"b">>, <<"B">>, <<"c">>},
        extras \in {{}, {<<"e">>}, {<<"E">>}, {<<"e">>, <<"f">>}},
        specifier \in {<<>>, Pin(1), AtLeast(2)} }

\* The candidates that can be built for a file: Candidate(identifier, file)
\* takes any pair, and find_matches pairs its identifier with whatever file
\* the listing of that name holds, so the name of the identifier need not
\* be the name of the file.
CandidatesOf(f) ==
    {Candidate(<<name, extras>>, f) : name \in {<<"b">>, <<"c">>}, extras \in CallExtras}

\* The requirement lists find_matches is called with for a name.
CallRequirementLists(name) ==
    { <<Requirement(Req(name, {}, <<>>, None))>>,
      <<Requirement(Req(name, {}, <<>>, None)), Requirement(Req(name, {}, AtLeast(2), None))>> }

InitCalls ==
    /\ scen \in CallScenarios
    /\ prov = InitProvider(scen.files)
    /\ states = <<>>
    /\ pc = "fresh"
    /\ result = None
    /\ log = NoLog

FindMatchesReturned(fm, identifier, requirements, oneshot) ==
    /\ prov' = fm.prov
    /\ result' = Some([op |-> "find_matches", identifier |-> identifier,
                       requirements |-> requirements, oneshot |-> oneshot,
                       matches |-> fm.matches, raised |-> fm.raised])

\* provider.find_matches(identifier, {identifier: requirements}, {}), the
\* entry being a list or, as in the tests, iter() of one.
CallFindMatches ==
    /\ pc \in {"fresh", "calls"}
    /\ \E identifier \in {<<<<"b">>, {<<"e">>}>>, <<<<"c">>, {}>>} :
         \E requirements \in CallRequirementLists(identifier[1]) : \E oneshot \in BOOLEAN :
            FindMatchesReturned(
                find_matches(prov, identifier, identifier :> requirements, <<>>, oneshot),
                identifier, requirements, oneshot)
    /\ pc' = "calls"
    /\ UNCHANGED <<scen, states, log>>

GetDependenciesReturned(gd, candidate) ==
    /\ prov' = gd.prov
    /\ result' = Some([op |-> "get_dependencies", candidate |-> candidate,
                       before |-> prov.markers[candidate.file],
                       requirements |-> gd.requirements])

\* provider.get_dependencies(candidate), for a candidate of b-1 or b-2 once
\* the file has its metadata attached.
CallGetDependencies ==
    /\ pc = "calls"
    /\ \E f \in prov.fetched \cap {1, 2} :
         \E candidate \in CandidatesOf(f) :
            GetDependenciesReturned(get_dependencies(prov, candidate), candidate)
    /\ pc' = "calls"
    /\ UNCHANGED <<scen, states, log>>

\* provider.is_satisfied_by(requirement, candidate) on a fresh provider; the
\* method reads nothing of the provider's state.
CallIsSatisfiedBy ==
    /\ pc = "fresh"
    /\ \E requirement \in CallRequirements :
         \E f \in {1, 2, 7} : \E candidate \in CandidatesOf(f) :
            result' = Some([op |-> "is_satisfied_by", requirement |-> requirement,
                            candidate |-> candidate,
                            value |-> is_satisfied_by(requirement, candidate)])
    /\ pc' = "returned"
    /\ UNCHANGED <<scen, prov, states, log>>

\* provider.candidate_sort_key of two candidates on a fresh provider, to
\* compare the keys as sorted() does.
CallCandidateSortKey ==
    /\ pc = "fresh"
    /\ \E f \in DOMAIN scen.files : \E g \in DOMAIN scen.files :
            result' = Some([op |-> "candidate_sort_key",
                            candidates |-> <<Candidate(<<File(f).name, {}>>, f),
                                             Candidate(<<File(g).name, {}>>, g)>>,
                            keys |-> <<candidate_sort_key(Candidate(<<File(f).name, {}>>, f)),
                                       candidate_sort_key(Candidate(<<File(g).name, {}>>, g))>>])
    /\ pc' = "returned"
    /\ UNCHANGED <<scen, prov, states, log>>

NextCalls ==
    CallFindMatches \/ CallGetDependencies \/ CallIsSatisfiedBy \/ CallCandidateSortKey

SpecCalls == InitCalls /\ [][NextCalls]_vars

-----------------------------------------------------------------------------
(* Sequences of find_matches calls on one provider object, over indexes    *)
(* that list the wheels of b in every order.                               *)

\* The number of usable wheels an index lists.
MaxFiles == 3

\* Wheels of b that pass the filter on the listing details: b-1, b-2 with
\* the less preferred tag, b-1 with a build tag, and b-3 whose metadata
\* asks for a newer interpreter.
MatchPool ==
    { WheelFile(<<"b">>, 1, <<>>, {"t1"}, None, None, <<>>),
      WheelFile(<<"b">>, 2, <<>>, {"t2"}, None, None, <<>>),
      WheelFile(<<"b">>, 1, <<1, 0>>, {"t1", "t2"}, None, None, <<>>),
      WheelFile(<<"b">>, 3, <<>>, {"t1"}, None, Some(AtLeast(3)), <<>>) }

\* Wheels the listing gives that the cache must not hold: no tag of the
\* provider's, and a requires-python in the details that excludes it.
Unusable ==
    << WheelFile(<<"b">>, 4, <<>>, {"t9"}, None, None, <<>>),
       WheelFile(<<"b">>, 5, <<>>, {"t1"}, Some(AtLeast(3)), None, <<>>) >>

MatchScenarios ==
    { [files |-> Unusable \o listed,
       tags |-> <<"t1", "t2">>,
       python_version |-> 2,
       environment |-> [sys_platform |-> "linux"],
       roots |-> <<>>] : listed \in ListsUpTo(MatchPool, MaxFiles) }

MatchIdentifiers == {<<<<"b">>, {}>>, <<<<"b">>, {<<"e">>}>>, <<<<"c">>, {}>>}

\* The requirements mapping of a call: no entry for the identifier, one
\* requirement without a specifier, or that one and a second one ">=2".
MatchRequirements(identifier) ==
    { <<>>,
      identifier :> <<Requirement(Req(identifier[1], identifier[2], <<>>, None))>>,
      identifier :> <<Requirement(Req(identifier[1], identifier[2], <<>>, None)),
                      Requirement(Req(identifier[1], identifier[2], AtLeast(2), None))>> }

\* The incompatibilities mapping of a call: no entry, or candidates of the
\* first two listed wheels, in either order.
MatchIncompatibilities(identifier) ==
    { <<>> } \cup
    { identifier :> l : l \in
        { <<Candidate(identifier, 3)>>,
          <<Candidate(identifier, 3), Candidate(identifier, 4)>>,
          <<Candidate(identifier, 4), Candidate(identifier, 3)>> } }

InitMatches ==
    /\ scen \in MatchScenarios
    /\ prov = InitProvider(scen.files)
    /\ states = <<>>
    /\ pc = "calls"
    /\ result = None
    /\ log = NoLog

\* What a call returned, with the cache and the fetched files before it and
\* the batch fetch_metadata was handed during it.
MatchesReturned(fm, identifier, requirements, incompatibilities, oneshot) ==
    /\ prov' = fm.prov
    /\ result' = Some([op |-> "find_matches", identifier |-> identifier,
                       requirements |-> requirements,
                       incompatibilities |-> incompatibilities,
                       oneshot |-> oneshot,
                       cache_before |-> prov.cache,
                       fetched_before |-> prov.fetched,
                       batch |-> SubSeq(fm.prov.fetchCalls, Len(prov.fetchCalls) + 1,
                                        Len(fm.prov.fetchCalls)),
                       matches |-> fm.matches, raised |-> fm.raised])
    /\ UNCHANGED <<scen, states, pc, log>>

\* The calls made: an entry of incompatibilities goes with a requirements
\* entry of one requirement.
MatchCalls ==
    { c \in UNION { {identifier} \X MatchRequirements(identifier)
                                  \X MatchIncompatibilities(identifier) :
                        identifier \in MatchIdentifiers } :
        c[3] # <<>> => (c[2] # <<>> /\ Len(c[2][c[1]]) = 1) }

\* find_matches with mappings that give a new iterator at each lookup, as
\* the engine's IteratorMapping does.
FindMatchesFresh ==
    \E c \in MatchCalls :
        MatchesReturned(find_matches(prov, c[1], c[2], c[3], FALSE), c[1], c[2], c[3], FALSE)

\* find_matches with dicts of iterators, {identifier: iter([...])}, as the
\* tests call it.
FindMatchesOneShot ==
    \E c \in MatchCalls :
        MatchesReturned(find_matches(prov, c[1], c[2], c[3], TRUE), c[1], c[2], c[3], TRUE)

NextMatches == FindMatchesFresh \/ FindMatchesOneShot

SpecMatches == InitMatches /\ [][NextMatches]_vars

-----------------------------------------------------------------------------
(* Two resolver runs over one index, each with a provider and files of its *)
(* own as resolve() of src/__main__.py makes them: the second run resolves *)
(* the requirements of the first with one of them changed.                 *)

DepCOldIfExtra == Req(<<"c">>, {}, Pin(1), IfExtra(<<"e">>))

\* The index of the two runs: a, b and c in versions 2 and 1, all usable;
\* b-2 comes as two wheels, the one of the preferred tag with the
\* dependencies b2 and one of the second tag without dependencies.
PairIndex(a2, a1, b2, b1) ==
    << WheelFile(<<"a">>, 2, <<>>, {"t1"}, None, None, a2),
       WheelFile(<<"a">>, 1, <<>>, {"t1"}, None, None, a1),
       WheelFile(<<"b">>, 2, <<>>, {"t1"}, None, None, b2),
       WheelFile(<<"b">>, 1, <<>>, {"t1"}, None, None, b1),
       WheelFile(<<"c">>, 2, <<>>, {"t1"}, None, None, <<>>),
       WheelFile(<<"c">>, 1, <<>>, {"t1"}, None, None, <<>>),
       WheelFile(<<"b">>, 2, <<>>, {"t2"}, None, None, <<>>) >>

\* The specifiers a requirement without one is tightened to.
Tighter == {Pin(1), Pin(2), AtLeast(2)}

\* The requirements of the first run and those of the second: the first
\* requirement with its specifier shrunk ...
TightenedPairs ==
    { [first |-> roots, second |-> [roots EXCEPT ![1].specifier = specifier],
       kind |-> "tighten"] :
        roots \in {<<RootA>>, <<RootB>>, <<RootBExtra>>, <<RootA, RootB>>, <<RootBExtra, RootA>>},
        specifier \in Tighter }

\* ... or b == v in the first run and b[e] == v in the second.
ExtraPairs ==
    { [first |-> <<Req(<<"b">>, {}, Pin(v), None)>>,
       second |-> <<Req(<<"b">>, {<<"e">>}, Pin(v), None)>>,
       kind |-> "extra"] : v \in {1, 2} }

PairScenarios ==
    { [files |-> PairIndex(a2, a1, b2, b1),
       tags |-> <<"t1", "t2">>,
       python_version |-> 2,
       environment |-> [sys_platform |-> "linux"],
       roots |-> pair.first,
       second |-> pair.second,
       kind |-> pair.kind,
       run |-> 1,
       first |-> None] :
        a2 \in ListsUpTo({DepBOld, DepBExtra}, MaxDeps),
        a1 \in ListsUpTo({DepB}, MaxDeps),
        b2 \in ListsUpTo({DepC, DepCOldIfExtra, DepZIfExtra}, MaxDeps),
        b1 \in ListsUpTo({DepC, DepZIfExtra}, MaxDeps),
        pair \in TightenedPairs \cup ExtraPairs }

InitPair ==
    /\ scen \in PairScenarios
    /\ prov = InitProvider(scen.files)
    /\ states = <<>>
    /\ pc = "init"
    /\ result = None
    /\ log = NoLog

\* The first run is over: its outcome is kept, and resolve() is called
\* again, with a new provider and new files, on the changed requirements
\* (scen.second then holds the requirements of the first run).
Again ==
    /\ pc \in {"done", "impossible"}
    /\ scen.run = 1
    /\ scen' = [scen EXCEPT !.roots = scen.second, !.second = scen.roots, !.run = 2,
                            !.first = Some([outcome |-> pc, mapping |-> result])]
    /\ prov' = InitProvider(scen.files)
    /\ states' = <<>>
    /\ pc' = "init"
    /\ result' = None
    /\ log' = NoLog

NextPair == Start \/ RoundDone \/ RoundPin \/ RoundBackjump \/ RoundImpossible \/ Again

SpecPair == InitPair /\ [][NextPair]_vars

-----------------------------------------------------------------------------
(* Comparisons of candidates and of wheels, over an index in which the     *)
(* same filename is listed twice: files 1 and 2 are two WheelFile objects  *)
(* constructed from the same details.                                      *)

EqIndex ==
    << WheelFile(<<"b">>, 1, <<>>, {"t1"}, None, None, <<>>),
       WheelFile(<<"b">>, 1, <<>>, {"t1"}, None, None, <<>>),
       WheelFile(<<"b">>, 1, <<1, 0>>, {"t1"}, None, None, <<>>),
       WheelFile(<<"b">>, 2, <<>>, {"t1"}, None, None, <<>>),
       WheelFile(<<"c">>, 1, <<>>, {"t1"}, None, None, <<>>) >>

\* The candidates compared: each file under each identifier.
EqCandidates ==
    { Candidate(identifier, f) :
        identifier \in {<<<<"b">>, {}>>, <<<<"b">>, {<<"e">>}>>, <<<<"c">>, {}>>},
        f \in DOMAIN EqIndex }

\* Wheel.__eq__: the filename tuples are equal.
WheelEq(f, g) == filename_tuple(f) = filename_tuple(g)

InitEq ==
    /\ scen = [files |-> EqIndex, tags |-> <<"t1", "t2">>, python_version |-> 2,
               environment |-> [sys_platform |-> "linux"], roots |-> <<>>]
    /\ prov = InitProvider(scen.files)
    /\ states = <<>>
    /\ pc = "fresh"
    /\ result = None
    /\ log = NoLog

\* candidate == other
CallCandidateEq ==
    /\ pc = "fresh"
    /\ \E c1 \in EqCandidates : \E c2 \in EqCandidates :
            result' = Some([op |-> "candidate_eq", candidates |-> <<c1, c2>>,
                            value |-> CandidateEq(c1, c2)])
    /\ pc' = "returned"
    /\ UNCHANGED <<scen, prov, states, log>>

\* file.wheel == other.wheel
CallWheelEq ==
    /\ pc = "fresh"
    /\ \E f \in DOMAIN scen.files : \E g \in DOMAIN scen.files :
            result' = Some([op |-> "wheel_eq", files |-> <<f, g>>,
                            value |-> WheelEq(f, g)])
    /\ pc' = "returned"
    /\ UNCHANGED <<scen, prov, states, log>>

NextEq == CallCandidateEq \/ CallWheelEq

SpecEq == InitEq /\ [][NextEq]_vars

-----------------------------------------------------------------------------
(* find_matches over two listings of the same wheels: the provider's index *)
(* lists them in one order, then a new provider lists them in another.     *)

\* Wheels of b; the first two differ in their tags only and have the same
\* sort key, t1 being the best tag of both.
PermPool ==
    { WheelFile(<<"b">>, 1, <<>>, {"t1"}, None, None, <<>>),
      WheelFile(<<"b">>, 1, <<>>, {"t1", "t2"}, None, None, <<>>),
      WheelFile(<<"b">>, 2, <<>>, {"t2"}, None, None, <<>>),
      WheelFile(<<"b">>, 1, <<1, 0>>, {"t1"}, None, None, <<>>) }

\* The orders in which the elements of a list can be listed.
Orderings(l) == {t \in ListsUpTo(Range(l), Len(l)) : Len(t) = Len(l)}

PermScenarios ==
    { [files |-> p[1], second |-> p[2], run |-> 1, first |-> None,
       tags |-> <<"t1", "t2">>,
       python_version |-> 2,
       environment |-> [sys_platform |-> "linux"],
       roots |-> <<>>] :
        p \in UNION {{<<listed, second>> : second \in Orderings(listed)} :
                        listed \in ListsUpTo(PermPool, MaxFiles) \ {<<>>}} }

InitPerm ==
    /\ scen \in PermScenarios
    /\ prov = InitProvider(scen.files)
    /\ states = <<>>
    /\ pc = "fresh"
    /\ result = None
    /\ log = NoLog

\* What the call returned: the candidates' positions in the listing, their
\* wheels and their sort keys.
ListedReturned(fm, requirements) ==
    /\ prov' = fm.prov
    /\ result' = Some([op |-> "find_matches", requirements |-> requirements,
                       listed |-> [i \in DOMAIN fm.matches |-> fm.matches[i].file],
                       wheels |-> [i \in DOMAIN fm.matches |-> File(fm.matches[i].file)],
                       keys |-> [i \in DOMAIN fm.matches |->
                                    candidate_sort_key(fm.matches[i])]])

\* provider.find_matches for b on a new provider; under the second listing
\* with the requirements of the call under the first.
FindMatchesListed ==
    /\ pc = "fresh"
    /\ \E requirements \in MatchRequirements(<<<<"b">>, {}>>) \ {<<>>} :
          /\ scen.first # None => requirements = scen.first[1].requirements
          /\ ListedReturned(find_matches(prov, <<<<"b">>, {}>>, requirements, <<>>, FALSE),
                            requirements)
    /\ pc' = "returned"
    /\ UNCHANGED <<scen, states, log>>

\* A new provider over the same wheels, listed in the second order.
Relist ==
    /\ pc = "returned"
    /\ scen.run = 1
    /\ scen' = [scen EXCEPT !.files = scen.second, !.second = scen.files,
                            !.run = 2, !.first = result]
    /\ prov' = InitProvider(scen.second)
    /\ pc' = "fresh"
    /\ result' = None
    /\ UNCHANGED <<states, log>>

NextPerm == FindMatchesListed \/ Relist

SpecPerm == InitPerm /\ [][NextPerm]_vars

-----------------------------------------------------------------------------
(* Three resolver runs: the second is given the provider object of the     *)
(* first, with the files it has cached and the metadata attached to them;  *)
(* the third resolves the requirements of the second with a new provider.  *)

\* The requirements of the first run and those of the two others.
ReuseRoots == {<<RootA>>, <<RootB>>, <<RootBExtra>>}

\* The index is that of the pairs of runs with one wheel for each version.
ReuseScenarios ==
    { [files |-> SubSeq(PairIndex(a2, a1, b2, b1), 1, 6),
       tags |-> <<"t1", "t2">>,
       python_version |-> 2,
       environment |-> [sys_platform |-> "linux"],
       roots |-> roots,
       second |-> second,
       run |-> 1,
       first |-> None] :
        a2 \in ListsUpTo({DepBOld, DepBExtra}, MaxDeps),
        a1 \in ListsUpTo({DepB}, MaxDeps),
        b2 \in ListsUpTo({DepC, DepCOldIfExtra, DepZIfExtra}, MaxDeps),
        b1 \in ListsUpTo({DepC, DepZIfExtra}, MaxDeps),
        roots \in ReuseRoots,
        second \in ReuseRoots }

InitReuse ==
    /\ scen \in ReuseScenarios
    /\ prov = InitProvider(scen.files)
    /\ states = <<>>
    /\ pc = "init"
    /\ result = None
    /\ log = NoLog

\* The first run is over; a new resolver is made over the same provider
\* object and resolves the second requirements.
Reuse ==
    /\ pc \in {"done", "impossible"}
    /\ scen.run = 1
    /\ scen' = [scen EXCEPT !.roots = scen.second, !.second = scen.roots, !.run = 2]
    /\ states' = <<>>
    /\ pc' = "init"
    /\ result' = None
    /\ log' = NoLog
    /\ UNCHANGED prov

\* The second run is over: its outcome is kept, and the same requirements
\* are resolved with a new provider and new files.
Afresh ==
    /\ pc \in {"done", "impossible"}
    /\ scen.run = 2
    /\ scen' = [scen EXCEPT !.run = 3,
                            !.first = Some([outcome |-> pc, mapping |-> result])]
    /\ prov' = InitProvider(scen.files)
    /\ states' = <<>>
    /\ pc' = "init"
    /\ result' = None
    /\ log' = NoLog

NextReuse ==
    Start \/ RoundDone \/ RoundPin \/ RoundBackjump \/ RoundImpossible \/ Reuse \/ Afresh

SpecReuse == InitReuse /\ [][NextReuse]_vars

-----------------------------------------------------------------------------
(* The lock driver: lock(context) of src/__main__.py, from its call.  For  *)
(* each platform it asks platform_details for the markers and tags, then   *)
(* file_lock for the packages, and merges them into one table keyed by     *)
(* (name, version).  file_lock calls resolve(), which makes its provider   *)
(* with PyPIProvider(markers=markers, tags=tags) before anything else is   *)
(* done with the requirements.                                             *)

\* The most platforms one lock run is given.
MaxPlatforms == 2

\* A platform name, "system" or <implementation><major>.<minor><os>, in
\* its parts.
Platform(implementation, version, os) ==
    [implementation |-> implementation, version |-> version, os |-> os]

SystemPlatform == Platform("system", <<>>, "")

\* The names the command line offers, in three of their versions and
\* flavours, and two it does not offer.
Platforms ==
    { SystemPlatform,
      Platform("python", <<3, 12>>, ""),
      Platform("cpython", <<3, 12>>, "-manylinux2014-x64"),
      Platform("cpython", <<3, 13>>, "-manylinux2014-x64"),
      Platform("cpython", <<3, 12>>, "-windows-x64"),
      Platform("python", <<3, 12>>, "-windows-x64"),
      Platform("pypy", <<3, 10>>, "") }

\* system_details, pure_python_details, cpython_windows_details and
\* cpython_manylinux_details: the markers, and the interpreter and platform
\* of the first tag.
Details(markers, interpreter, tag_platform) ==
    [raised |-> "", markers |-> markers, interpreter |-> interpreter,
     tag_platform |-> tag_platform]

\* platform_details: "system" is the running interpreter (taken to be
\* CPython 3.12 on Linux); a name that starts with "python" has the rest of
\* it read as two integers, which fails when the rest holds more than a
\* version; a name that fits none of the four forms raises ValueError.
platform_details(platform) ==
    IF platform = SystemPlatform
    THEN Details([python_version |-> <<3, 12>>, sys_platform |-> "linux"], "cp", "manylinux")
    ELSE IF platform.implementation = "python"
    THEN IF platform.os = ""
         THEN Details([python_version |-> platform.version], "py", "any")
         ELSE [raised |-> "ValueError"]
    ELSE IF platform.implementation = "cpython" /\ platform.os = "-windows-x64"
    THEN Details([python_version |-> platform.version, sys_platform |-> "win32"], "cp", "win")
    ELSE IF platform.implementation = "cpython" /\ platform.os = "-manylinux2014-x64"
    THEN Details([python_version |-> platform.version, sys_platform |-> "linux"],
                 "cp", "manylinux")
    ELSE [raised |-> "ValueError"]

LockScenarios ==
    { [files |-> PairIndex(<<>>, <<>>, <<>>, <<>>),
       tags |-> <<"t1", "t2">>,
       python_version |-> 2,
       environment |-> [sys_platform |-> "linux"],
       roots |-> roots,
       platform |-> platform] :
        roots \in {<<RootA>>, <<RootB>>, <<RootBExtra, RootA>>},
        platform \in UNION { [1 .. n -> Platforms] : n \in 0 .. MaxPlatforms } }

\* context.platform or ["system"]
PlatformsOf(sc) == IF sc.platform = <<>> THEN <<SystemPlatform>> ELSE sc.platform

\* flatten_graph: one PackageVersion per entry of the mapping, named by the
\* identifier's name, with the pinned file as its only wheel.
flatten_graph(mapping) ==
    [ i \in DOMAIN mapping |->
        [name |-> mapping[i].candidate.identifier[1],
         version |-> File(mapping[i].candidate.file).version,
         wheels |-> << filename_tuple(mapping[i].candidate.file) >>] ]

\* for seen_wheel in locks[key].wheels: break on an equal name, else append
\* new_wheel to the list being walked; the walk goes on over what it appended.
RECURSIVE MergeWheelFrom(_, _, _)
MergeWheelFrom(seen, new_wheel, i) ==
    IF i > Len(seen) THEN seen
    ELSE IF new_wheel = seen[i] THEN seen
    ELSE MergeWheelFrom(Append(seen, new_wheel), new_wheel, i + 1)

\* for new_wheel in package.wheels
RECURSIVE MergeWheelsFrom(_, _, _)
MergeWheelsFrom(seen, wheels, j) ==
    IF j > Len(wheels) THEN seen
    ELSE MergeWheelsFrom(MergeWheelFrom(seen, wheels[j], 1), wheels, j + 1)

\* The body of lock's loop over one platform's packages.
MergePackage(locks, package) ==
    LET key == <<package.name, package.version>> IN
    IF key \notin DOMAIN locks.at
    THEN DictSet(locks, key, package)
    ELSE DictSet(locks, key,
                 [locks.at[key] EXCEPT
                     !.wheels = MergeWheelsFrom(@, package.wheels, 1)])

RECURSIVE MergePackagesFrom(_, _, _)
MergePackagesFrom(locks, packages, i) ==
    IF i > Len(packages) THEN locks
    ELSE MergePackagesFrom(MergePackage(locks, packages[i]), packages, i + 1)

\* lock(context) is called: locks = {}, no platform handled.
InitLock ==
    /\ scen \in LockScenarios
    /\ prov = None
    /\ states = <<>>
    /\ pc = "lock"
    /\ result = [locks |-> EmptyDict, turn |-> 0, details |-> None]
    /\ log = NoLog

\* The turn of the loop for the next platform, up to the call of file_lock:
\* platform_details gives the markers and tags or raises ValueError.
LockPlatformDetails ==
    /\ pc = "lock"
    /\ result.turn < Len(PlatformsOf(scen))
    /\ LET details == platform_details(PlatformsOf(scen)[result.turn + 1]) IN
        IF details.raised # ""
        THEN pc' = details.raised /\ UNCHANGED result
        ELSE pc' = "file_lock" /\ result' = [result EXCEPT !.details = Some(details)]
    /\ UNCHANGED <<scen, prov, states, log>>

\* file_lock(markers, tags, dependencies): resolve() keeps the requirements
\* whose marker holds and makes the provider; the call that makes it raises.
\* Were the provider made, the resolver would run (Next) and the turn go on
\* with flatten_graph and the merge (MergePackagesFrom).
LockFileLock ==
    /\ pc = "file_lock"
    /\ LET made == PyPIProvider({"markers", "tags"}, scen.files) IN
        IF made.raised # ""
        THEN pc' = made.raised /\ UNCHANGED prov
        ELSE pc' = "init" /\ prov' = made.provider[1]
    /\ UNCHANGED <<scen, states, result, log>>

NextLock == LockPlatformDetails \/ LockFileLock

\* lock() is sequential code: a step that can be taken is taken.
SpecLock == InitLock /\ [][NextLock]_vars /\ WF_vars(NextLock)

-----------------------------------------------------------------------------
(* The installer's choose_packages: a stack of requirements from the       *)
(* selected groups of a lock file, one package version chosen per name.    *)

\* A requirement table of the lock file; None stands for an absent key.
LockReq(name, version, marker, extras, feature) ==
    [name |-> name, version |-> version, marker |-> marker, extras |-> extras,
     feature |-> feature]

\* A [[packages]] table of the lock file.
LockPkg(name, version, groups, deps) ==
    [name |-> name, version |-> version, groups |-> groups, dependencies |-> deps]

\* The requirements the groups of the lock files are made of.
LockRequirements ==
    { LockReq(<<"b">>, None, None, None, None),
      LockReq(<<"b">>, Some(Pin(1)), None, None, None),
      LockReq(<<"b">>, Some(AtLeast(2)), None, None, None),
      LockReq(<<"b">>, None, None, Some({<<"e">>}), None),
      LockReq(<<"c">>, None, None, None, None),
      LockReq(<<"b">>, Some(AtLeast(2)), IfPlatform("win32"), None, None),
      LockReq(<<"b">>, Some(Pin(1)), IfPlatform("linux"), None, None) }

\* The package tables of the lock files: a dependency behind a feature and
\* a package of another group; a package requiring itself with an extra;
\* a dependency no package table provides.
LockPackageLists ==
    { << LockPkg(<<"b">>, 1, {"g"},
                 << LockReq(<<"c">>, None, None, None, None),
                    LockReq(<<"c">>, Some(AtLeast(2)), None, None, Some(<<"e">>)) >>),
         LockPkg(<<"c">>, 1, {"g", "h"}, <<>>),
         LockPkg(<<"c">>, 2, {"h"}, <<>>) >>,
      << LockPkg(<<"b">>, 1, {"g"},
                 << LockReq(<<"b">>, None, None, Some({<<"e">>}), None) >>),
         LockPkg(<<"b">>, 2, {"g"}, <<>>) >>,
      << LockPkg(<<"b">>, 1, {"g"},
                 << LockReq(<<"d">>, None, None, None, None) >>),
         LockPkg(<<"c">>, 1, {"h"}, <<>>) >> }

\* The groups choose_packages is asked for.
SelectedGroups == { <<"g">>, <<"g", "h">>, <<"x">> }

ChooseScenarios ==
    { [files |-> <<>>, tags |-> <<"t1", "t2">>, python_version |-> 2,
       environment |-> [sys_platform |-> "linux"], roots |-> <<>>,
       lock |-> [groups |-> << [name |-> "g", requirements |-> requirements],
                               [name |-> "h", requirements |->
                                   << LockReq(<<"c">>, None, None, None, None) >>] >>,
                 packages |-> packages],
       selected_groups |-> selected_groups] :
        requirements \in ListsUpTo(LockRequirements, 2),
        packages \in LockPackageLists,
        selected_groups \in SelectedGroups }

\* available_packages.get(name, []): the packages of that name in the
\* selected groups, in the order of the lock file.
available_packages(name) ==
    Filter(scen.lock.packages,
           LAMBDA pkg : /\ pkg.name = name
                        /\ pkg.groups \cap Range(scen.selected_groups) # {})

\* name in available_packages
IsAvailable(name) == available_packages(name) # <<>>

\* gather_requirements: the requirements of the first group of that name;
\* ValueError when the lock file has no such group.
GroupFound(group_name) ==
    \E i \in DOMAIN scen.lock.groups : scen.lock.groups[i].name = group_name

gather_requirements(group_name) ==
    scen.lock.groups[CHOOSE i \in DOMAIN scen.lock.groups :
                        /\ scen.lock.groups[i].name = group_name
                        /\ \A j \in 1..(i - 1) : scen.lock.groups[j].name # group_name
                    ].requirements

RECURSIVE GatherFrom(_)
GatherFrom(i) ==
    IF i > Len(scen.selected_groups) THEN <<>>
    ELSE gather_requirements(scen.selected_groups[i]) \o GatherFrom(i + 1)

\* applies_to_env
applies_to_env(requirement) ==
    \/ requirement.marker = None
    \/ MarkerEvaluate(requirement.marker[1], scen.environment, NoExtra)

\* version_satisfies
version_satisfies(requirement, package) ==
    \/ requirement.version = None
    \/ Contains(requirement.version[1], package.version)

\* The possible_packages of compatible_package_version.
possible_packages(requirement, available) ==
    Filter(available, LAMBDA pkg : version_satisfies(requirement, pkg))

\* compatible_package_version: the exception it raises, or the package.
compatible_package_version(requirement, available) ==
    LET possible == possible_packages(requirement, available) IN
    IF possible = <<>> THEN [raised |-> "UnsatisfiableError", package |-> None]
    ELSE IF Len(possible) > 1 THEN [raised |-> "AmbiguityError", package |-> None]
    ELSE [raised |-> "", package |-> Some(possible[1])]

\* dependencies: those without a feature or with one of the requirement's extras.
dependencies(package, requirement) ==
    LET extras == IF requirement.extras = None THEN {} ELSE requirement.extras[1] IN
    Filter(package.dependencies,
           LAMBDA dep : dep.feature = None \/ dep.feature[1] \in extras)

InitChoose ==
    /\ scen \in ChooseScenarios
    /\ prov = InitProvider(scen.files)
    /\ states = <<>>
    /\ pc = "called"
    /\ result = [selected_packages |-> EmptyDict]
    /\ log = [popped |-> <<>>]

\* choose_packages up to its loop: the requirements of the selected groups.
Gather ==
    /\ pc = "called"
    /\ IF \A i \in DOMAIN scen.selected_groups : GroupFound(scen.selected_groups[i])
       THEN /\ states' = GatherFrom(1)
            /\ pc' = "choosing"
       ELSE /\ pc' = "ValueError"
            /\ UNCHANGED states
    /\ UNCHANGED <<scen, prov, result, log>>

\* What one turn of the loop does with the requirement it popped: the
\* exception it raises, the selection and what it pushes.
Turn(req, selected) ==
    IF ~ applies_to_env(req)
    THEN [raised |-> "", selected |-> selected, pushed |-> <<>>]
    ELSE IF req.name \in DOMAIN selected.at
    THEN IF ~ version_satisfies(req, selected.at[req.name])
         THEN [raised |-> "UnsatisfiableError", selected |-> selected, pushed |-> <<>>]
         ELSE IF req.extras = None
         THEN [raised |-> "", selected |-> selected, pushed |-> <<>>]
         \* handled_extras.set_default: a dict has no such attribute
         ELSE [raised |-> "AttributeError", selected |-> selected, pushed |-> <<>>]
    ELSE IF ~ IsAvailable(req.name)
    \* available_packages[req["name"]]
    THEN [raised |-> "KeyError", selected |-> selected, pushed |-> <<>>]
    ELSE LET found == compatible_package_version(req, available_packages(req.name)) IN
         IF found.raised # ""
         THEN [raised |-> found.raised, selected |-> selected, pushed |-> <<>>]
         ELSE [raised |-> "",
               selected |-> DictSet(selected, req.name, found.package[1]),
               pushed |-> dependencies(found.package[1], req)]

\* One turn of while requirements: pop, then the body.
Iterate ==
    /\ pc = "choosing"
    /\ states # <<>>
    /\ LET req == states[Len(states)]
           turn == Turn(req, result.selected_packages) IN
        /\ states' = SubSeq(states, 1, Len(states) - 1) \o turn.pushed
        /\ result' = [selected_packages |-> turn.selected]
        /\ log' = [popped |-> Append(log.popped, req)]
        /\ pc' = IF turn.raised = "" THEN "choosing" ELSE turn.raised
    /\ UNCHANGED <<scen, prov>>

\* The stack is empty: return selected_packages.values().
ReturnSelected ==
    /\ pc = "choosing"
    /\ states = <<>>
    /\ pc' = "returned"
    /\ UNCHANGED <<scen, prov, states, result, log>>

NextChoose == Gather \/ Iterate \/ ReturnSelected

SpecChoose == InitChoose /\ [][NextChoose]_vars

-----------------------------------------------------------------------------
(* Two resolver runs on the same requirements, each with a provider of its *)
(* own.  The provider of the second run lists the same files in the same   *)
(* order with the same metadata: either the file and metadata objects the  *)
(* first provider listed (two providers made over one list of files and    *)
(* one table of metadata), or new objects made from the same index.        *)

InitTwice ==
    /\ scen \in {[files |-> s.files, tags |-> s.tags, python_version |-> s.python_version,
                  environment |-> s.environment, roots |-> s.roots,
                  run |-> 1, descriptors |-> "new", first |-> None] : s \in Scenarios}
    /\ prov = InitProvider(scen.files)
    /\ states = <<>>
    /\ pc = "init"
    /\ result = None
    /\ log = NoLog

\* The first run is over: its outcome is kept, and the same requirements
\* are resolved by a new resolver with a new provider, which has nothing
\* cached and no call made on it; over the objects of the first run, the
\* files keep the metadata attached to them and the metadata is as the
\* first run left it.
Twice ==
    /\ pc \in {"done", "impossible"}
    /\ scen.run = 1
    /\ \E descriptors \in {"shared", "new"} :
          /\ scen' = [scen EXCEPT !.run = 2, !.descriptors = descriptors,
                                  !.first = Some([outcome |-> pc, mapping |-> result])]
          /\ prov' = IF descriptors = "shared"
                     THEN [InitProvider(scen.files) EXCEPT !.fetched = prov.fetched,
                                                           !.markers = prov.markers]
                     ELSE InitProvider(scen.files)
    /\ states' = <<>>
    /\ pc' = "init"
    /\ result' = None
    /\ log' = NoLog

NextTwice == Start \/ RoundDone \/ RoundPin \/ RoundBackjump \/ RoundImpossible \/ Twice

SpecTwice == InitTwice /\ [][NextTwice]_vars

-----------------------------------------------------------------------------
(* What the properties below speak of.                                     *)

\* The mapping a successful run returned: pins [key, candidate] in pin order.
M == result[1]

Keys == {M[i].key : i \in DOMAIN M}

Committed(identifier) == MappingGet(M, identifier)

\* The identifier of a requirement, spelled out: the canonical name and the
\* set of canonical extras.
CanonicalIdentifier(req) ==
    <<canonicalize_name(req.name), {canonicalize_name(e) : e \in req.extras}>>

\* The top-level requirements that apply: no marker, or one that is true.
Applicable ==
    {scen.roots[i] : i \in {j \in DOMAIN scen.roots :
        \/ scen.roots[j].marker = None
        \/ MarkerEvaluate(scen.roots[j].marker[1], scen.environment, NoExtra)}}

\* The candidate is of the requirement's distribution with the requirement's
\* extras, and the version of its file is in the requirement's specifier set.
Meets(req, candidate) ==
    /\ candidate.identifier = CanonicalIdentifier(req)
    /\ scen.files[candidate.file].name = canonicalize_name(req.name)
    /\ Contains(req.specifier, scen.files[candidate.file].version)

\* The file can be used in the environment: a tag of the provider's, and the
\* interpreter version in both requires-python declarations.
EnvironmentCompatible(f) ==
    /\ scen.files[f].tags \cap Range(scen.tags) # {}
    /\ \/ scen.files[f].details_requires_python = None
       \/ Contains(scen.files[f].details_requires_python[1], scen.python_version)
    /\ \/ scen.files[f].requires_python = None
       \/ Contains(scen.files[f].requires_python[1], scen.python_version)

\* What get_dependencies gives for a candidate on a provider no call has
\* been made on yet: the self-pin and the entries of the metadata as the
\* index serves it, before any call has cleared a marker in it.
FetchedDependencies(candidate) ==
    get_dependencies(InitProvider(scen.files), candidate).requirements

-----------------------------------------------------------------------------
(* The contract of a resolver run                                          *)

\* C1: the mapping of a successful resolve holds, for every top-level
\* requirement r passed in, r's identifier (canonical name, canonical extras)
\* and is_satisfied_by(r, M[r.identifier]) is true.
C1_RootsSatisfied ==
    pc = "done" =>
        \A r \in Applicable :
            /\ CanonicalIdentifier(r) \in Keys
            /\ is_satisfied_by(Requirement(r), Committed(CanonicalIdentifier(r)))

\* A successful run with two top-level requirements on one distribution,
\* one with an extra and one that pins the version, written in raw case.
C1_Witness ==
    /\ pc = "done"
    /\ Applicable = {RootBOld, RootBExtra}
    /\ Keys = {<<<<"b">>, {}>>, <<<<"b">>, {<<"e">>}>>}

\* C2: in the mapping of a successful resolve, every requirement that
\* get_dependencies, called on the provider of the run, emits for a
\* committed candidate has its identifier in the mapping and is satisfied
\* by the candidate committed there.
C2_ClosedUnderDependencies ==
    pc = "done" =>
        \A i \in DOMAIN M :
            \A r \in Range(get_dependencies(prov, M[i].candidate).requirements) :
                /\ r.identifier \in Keys
                /\ is_satisfied_by(r, Committed(r.identifier))

\* The mapping of a successful resolve is closed under the requirements of
\* the metadata as the index serves it: every requirement that
\* get_dependencies gives for a committed candidate on an untouched
\* provider has its identifier in the mapping and is satisfied there.
ClosedUnderFetchedDependencies ==
    pc = "done" =>
        \A i \in DOMAIN M :
            \A r \in Range(FetchedDependencies(M[i].candidate)) :
                /\ r.identifier \in Keys
                /\ is_satisfied_by(r, Committed(r.identifier))
                /\ Meets(r.req, Committed(r.identifier))

\* A successful run three levels deep: a needs b[e], whose extra needs c.
C2_Witness ==
    /\ pc = "done"
    /\ Applicable = {RootA}
    /\ \E i \in DOMAIN M :
          /\ M[i].key = <<<<"a">>, {}>>
          /\ Requirement(DepBExtra) \in Range(FetchedDependencies(M[i].candidate))
    /\ \E i \in DOMAIN M :
          /\ M[i].key = <<<<"b">>, {<<"e">>}>>
          /\ Requirement([DepCIfExtra EXCEPT !.marker = None])
                 \in Range(FetchedDependencies(M[i].candidate))
    /\ <<<<"c">>, {}>> \in Keys

\* C3: in the mapping of a successful resolve, every identifier (N, X) with
\* X not empty comes with (N, {}) pinned to the same version, also when
\* several extras identifiers of N are requested separately.
C3_ExtrasShareVersion ==
    pc = "done" =>
        \A i \in DOMAIN M :
            M[i].key[2] # {} =>
                /\ <<M[i].key[1], {}>> \in Keys
                /\ scen.files[Committed(<<M[i].key[1], {}>>).file].version
                     = scen.files[M[i].candidate.file].version

\* A successful run where b[e] and b[F] were requested separately and the
\* newest b is not usable for one of them.
C3_Witness ==
    /\ pc = "done"
    /\ Applicable = {RootBExtra, RootBOther}
    /\ {<<<<"b">>, {<<"e">>}>>, <<<<"b">>, {<<"f">>}>>} \subseteq Keys
    /\ log.rejected > 0

\* C4: every candidate committed in the mapping of a successful resolve is
\* environment-compatible: one of its tags is among the provider's, and the
\* requires-python of its listing details and of its fetched metadata, where
\* declared, contain the provider's interpreter version.
C4_CommittedAreCompatible ==
    pc = "done" =>
        \A i \in DOMAIN M :
            /\ M[i].candidate.file \in prov.fetched
            /\ EnvironmentCompatible(M[i].candidate.file)

\* A successful run that committed a and c although the newest file of each
\* is not compatible (by tag for a, by its metadata for c).
C4_Witness ==
    /\ pc = "done"
    /\ \E i \in DOMAIN M : \E j \in DOMAIN M :
          /\ M[i].key[1] = <<"a">> /\ M[j].key[1] = <<"c">>
          /\ \E f \in DOMAIN scen.files :
                /\ scen.files[f].name = <<"a">>
                /\ scen.files[f].version > scen.files[M[i].candidate.file].version
                /\ ~ EnvironmentCompatible(f)
          /\ \E f \in DOMAIN scen.files :
                /\ scen.files[f].name = <<"c">>
                /\ scen.files[f].version > scen.files[M[j].candidate.file].version
                /\ ~ EnvironmentCompatible(f)

\* No file of the index can serve the requirement: none has its name, a
\* version in its specifier set and is usable in the environment.
NoUsableFile(req) ==
    ~ \E f \in DOMAIN scen.files :
        /\ scen.files[f].name = canonicalize_name(req.name)
        /\ Contains(req.specifier, scen.files[f].version)
        /\ EnvironmentCompatible(f)

\* find_matches for a top-level requirement alone, on a fresh provider.
RootMatches(req) ==
    find_matches(InitProvider(scen.files), CanonicalIdentifier(req),
                 CanonicalIdentifier(req) :> <<Requirement(req)>>, <<>>, FALSE)

\* C6: when no candidate exists for a top-level requirement, find_matches
\* returns an empty list without raising, and resolve ends in
\* ResolutionImpossible: it never runs a round, and it returns no mapping.
C6_NoCandidateIsImpossible ==
    \A r \in Applicable :
        NoUsableFile(r) =>
            /\ RootMatches(r).matches = <<>>
            /\ ~ RootMatches(r).raised
            /\ pc \in {"init", "impossible"}
            /\ result = None

\* resolve ended in ResolutionImpossible on b and c>=2: b has candidates,
\* the only file of c that is new enough fails on its metadata.
C6_Witness ==
    /\ pc = "impossible"
    /\ Applicable = {RootB, RootC}
    /\ NoUsableFile(RootC) /\ ~ NoUsableFile(RootB)
    /\ Len(states) = 1
    /\ result = None

\* The key of c1 is greater than the key of c2.
Outranks(c1, c2) == KeyLess(candidate_sort_key(c2), candidate_sort_key(c1))

\* C7 as stated: when a candidate is committed, every candidate of its
\* identity that satisfies the active constraints and has a greater key has
\* been committed before.
C7_HigherKeyCommittedFirst ==
    log.last.kind = "pin" =>
        \A i \in DOMAIN log.last.candidates :
            Outranks(log.last.candidates[i], log.last.candidate[1]) =>
                log.last.candidates[i] \in log.committed

\* C7, amended: the candidates that satisfy the active constraints are tried
\* in descending key order and the first whose dependencies do not conflict
\* is committed, so every candidate with a greater key than the committed
\* one was tried in that round and rejected; and when the run rejects no
\* candidate, never backtracks and never replaces a pin, each committed file
\* is the newest usable one that satisfies the requirements on its identity.
C7_TriedInKeyOrder ==
    /\ log.last.kind = "pin" =>
          /\ log.last.candidate[1] = log.last.candidates[log.last.rejected + 1]
          /\ \A i \in DOMAIN log.last.candidates :
                Outranks(log.last.candidates[i], log.last.candidate[1]) =>
                    i <= log.last.rejected
    /\ (pc = "done" /\ log.rejected = 0 /\ log.backjumps = 0 /\ log.repins = 0) =>
          \A i \in DOMAIN M : \A f \in DOMAIN scen.files :
              ( /\ scen.files[f].name = M[i].key[1]
                /\ EnvironmentCompatible(f)
                /\ \A info \in Range(Top.criteria.at[M[i].key].information) :
                       Contains(info.requirement.req.specifier, scen.files[f].version) )
              => scen.files[f].version <= scen.files[M[i].candidate.file].version

\* A round that committed a candidate after rejecting one with a greater
\* key that satisfied the same constraints.
C7_Witness ==
    /\ log.last.kind = "pin"
    /\ log.last.rejected > 0
    /\ Outranks(log.last.candidates[1], log.last.candidate[1])
    /\ log.last.candidates[1] \notin log.committed

-----------------------------------------------------------------------------
(* The contract of the provider's methods                                  *)

\* The last call and what it returned.
Call == result[1]

Returned(op) == result # None /\ Call.op = op

\* len(tags) minus the 0-based index of the first entry of provider.tags
\* that is among the tags of the file.
TagRank(f) ==
    LET first == CHOOSE i \in DOMAIN scen.tags :
                    /\ scen.tags[i] \in scen.files[f].tags
                    /\ \A j \in 1 .. i - 1 : scen.tags[j] \notin scen.files[f].tags
    IN  Len(scen.tags) - (first - 1)

\* Build tag b1 is below b2: no build tag is below every build tag, and two
\* build tags compare by number, then by suffix.
BuildBelow(b1, b2) ==
    IF b2 = <<>> THEN FALSE
    ELSE IF b1 = <<>> THEN TRUE
    ELSE b1[1] < b2[1] \/ (b1[1] = b2[1] /\ b1[2] < b2[2])

\* File f is preferred to file g: by version, then tag rank, then build tag.
Preferred(f, g) ==
    \/ scen.files[f].version > scen.files[g].version
    \/ /\ scen.files[f].version = scen.files[g].version
       /\ \/ TagRank(f) > TagRank(g)
          \/ /\ TagRank(f) = TagRank(g)
             /\ BuildBelow(scen.files[g].build_tag, scen.files[f].build_tag)

\* C8: candidate_sort_key orders candidates lexicographically by (version,
\* len(tags) minus the index of the first matching provider tag, build tag
\* or ()): the key of one wheel is greater than the key of another exactly
\* when its version is higher, or on equal versions its tag rank is higher,
\* or on equal version and rank its build tag is larger, no build tag being
\* below every build tag.
C8_SortKeyOrder ==
    ( /\ Returned("candidate_sort_key")
      /\ Call.keys[1] # ValueError /\ Call.keys[2] # ValueError ) =>
        ( KeyLess(Call.keys[2], Call.keys[1])
            <=> Preferred(Call.candidates[1].file, Call.candidates[2].file) )

\* The keys of b-2 (less preferred tag, no build tag) and of b-1 with the
\* most preferred tag and build tag 2 were compared: the version decides.
C8_Witness ==
    /\ Returned("candidate_sort_key")
    /\ Call.candidates[1].file = 2 /\ Call.candidates[2].file = 4
    /\ TagRank(2) < TagRank(4)
    /\ KeyLess(Call.keys[2], Call.keys[1])

\* C9: is_satisfied_by(requirement, candidate) is true if and only if the
\* identifier of the requirement (canonical name and canonical extras set)
\* equals the identifier of the candidate and the version of the candidate's
\* file is in the specifier set of the requirement.
C9_SatisfiedIff ==
    Returned("is_satisfied_by") =>
        ( Call.value
            <=> /\ CanonicalIdentifier(Call.requirement.req) = Call.candidate.identifier
                /\ Contains(Call.requirement.req.specifier,
                            scen.files[Call.candidate.file].version) )

\* C9, amended: is_satisfied_by(requirement, candidate) is true if and only
\* if the identifiers are equal, the candidate's file bears the canonical
\* name of the requirement, and the version of the file is in the specifier
\* set of the requirement.
C9_SatisfiedIffFileNamed ==
    Returned("is_satisfied_by") =>
        ( Call.value
            <=> /\ CanonicalIdentifier(Call.requirement.req) = Call.candidate.identifier
                /\ scen.files[Call.candidate.file].name
                       = CanonicalIdentifier(Call.requirement.req)[1]
                /\ Contains(Call.requirement.req.specifier,
                            scen.files[Call.candidate.file].version) )

\* is_satisfied_by returned false for b==1 and a candidate with the
\* identifier of b over the file c-1: the identifiers are equal and the
\* version is in the specifier, the file is of another name.
C9_Witness ==
    /\ Returned("is_satisfied_by")
    /\ Call.requirement.req = Req(<<"b">>, {}, Pin(1), None)
    /\ Call.candidate = Candidate(<<<<"b">>, {}>>, 7)
    /\ ~ Call.value

\* An entry with this marker belongs to the dependencies of a candidate
\* with these extras.
ShouldInclude(marker, extras) ==
    \/ marker = None
    \/ MarkerEvaluate(marker[1], scen.environment, NoExtra)
    \/ /\ extras # {}
       /\ \E e \in extras : MarkerEvaluate(marker[1], scen.environment, e)

\* What get_dependencies returned besides the self-pin.
BesidesSelfPin ==
    IF Call.requirements # <<>> /\ Call.requirements[1] = SelfPin(Call.candidate)
         /\ Call.candidate.identifier[2] # {}
    THEN Tail(Call.requirements)
    ELSE Call.requirements

\* C10: besides the self-pin, get_dependencies returns exactly the entries
\* of the dependency list, as the metadata holds it when the call is made,
\* that have no marker, or whose marker is true under the environment, or,
\* for a candidate with extras X, is true with extra = e for some e in X;
\* every other entry is left out.
C10_DependenciesIncluded ==
    Returned("get_dependencies") =>
        LET f == Call.candidate.file
            included == Filter([i \in DOMAIN Call.before |-> i],
                               LAMBDA i : ShouldInclude(Call.before[i],
                                                        Call.candidate.identifier[2]))
        IN  BesidesSelfPin =
                [k \in 1 .. Len(included) |->
                    Requirement([scen.files[f].requires_dist[included[k]]
                                     EXCEPT !.marker = None])]

\* get_dependencies was called on fresh metadata for b[e]: the entry for
\* extra e is returned, the entry for extra f is left out.
C10_Witness ==
    /\ Returned("get_dependencies")
    /\ Call.candidate = Candidate(<<<<"b">>, {<<"e">>}>>, 2)
    /\ scen.files[2].requires_dist = <<DepCIfOther, DepZIfExtra>>
    /\ Call.before = <<DepCIfOther.marker, DepZIfExtra.marker>>
    /\ BesidesSelfPin = <<Requirement(DepZ)>>

\* The entries of the dependency list that a call with these extras
\* includes, by their positions in the list, lowest first.
IncludedPositions(markers, extras) ==
    Filter([i \in DOMAIN markers |-> i], LAMBDA i : ShouldInclude(markers[i], extras))

\* C11: get_dependencies emits the included requirements in the order in
\* which they appear in the dependency list of the metadata; for a candidate
\* with extras the exact-version requirement on the bare distribution (name,
\* no extras, == the version of the candidate's file) comes first, before
\* every entry of the metadata, and for a candidate without extras the
\* result starts with the first included entry: no self-pin is emitted.
C11_DependenciesInOrder ==
    Returned("get_dependencies") =>
        LET f == Call.candidate.file
            extras == Call.candidate.identifier[2]
            positions == IncludedPositions(Call.before, extras)
            offset == IF extras = {} THEN 0 ELSE 1
        IN  /\ Len(Call.requirements) = offset + Len(positions)
            /\ extras # {} =>
                  /\ Call.requirements[1].identifier = <<Call.candidate.identifier[1], {}>>
                  /\ Call.requirements[1].req.specifier =
                        <<[op |-> "==", v |-> scen.files[f].version]>>
            /\ \A k \in 1 .. Len(positions) :
                  /\ Call.requirements[offset + k].req.name =
                        scen.files[f].requires_dist[positions[k]].name
                  /\ Call.requirements[offset + k].req.specifier =
                        scen.files[f].requires_dist[positions[k]].specifier

\* get_dependencies of b[e] on b-2, whose metadata lists z under extra e
\* before c, returned the self-pin b==2, then z, then c.
C11_Witness ==
    /\ Returned("get_dependencies")
    /\ Call.candidate = Candidate(<<<<"b">>, {<<"e">>}>>, 2)
    /\ scen.files[2].requires_dist = <<DepZIfExtra, DepC>>
    /\ Call.requirements = <<SelfPin(Call.candidate), Requirement(DepZ), Requirement(DepC)>>

\* C12: get_dependencies mutates nothing: after the call every entry of the
\* dependency list of the candidate's metadata has the marker it had before
\* the call, the returned requirements being new objects.
C12_MetadataUnchanged ==
    Returned("get_dependencies") => prov.markers[Call.candidate.file] = Call.before

-----------------------------------------------------------------------------
(* The contract of find_matches                                            *)

\* The files of the candidates the last call returned.
Matched == {Call.matches[i].file : i \in DOMAIN Call.matches}

\* The file has the name of every one of the requirements and its version
\* is in the specifier set of every one of them.
SatisfiesAll(f, requirements) ==
    \A i \in DOMAIN requirements :
        /\ scen.files[f].name = canonicalize_name(requirements[i].req.name)
        /\ Contains(requirements[i].req.specifier, scen.files[f].version)

\* The file has a tag of the provider's and the requires-python of its
\* listing details, if there is one, contains the interpreter version.
DetailsCompatible(f) ==
    /\ scen.files[f].tags \cap Range(scen.tags) # {}
    /\ \/ scen.files[f].details_requires_python = None
       \/ Contains(scen.files[f].details_requires_python[1], scen.python_version)

\* The requires_python of the file's metadata, if there is one, contains
\* the interpreter version.
MetadataCompatible(f) ==
    \/ scen.files[f].requires_python = None
    \/ Contains(scen.files[f].requires_python[1], scen.python_version)

\* C13: a cached file passes the requirement stage of find_matches if and
\* only if it satisfies every requirement of requirements[I], wherever it
\* stands in the list, and without an entry for I nothing is returned.  On
\* calls without incompatibilities the files that pass the stage and whose
\* metadata is compatible are the files returned.
C13_RequirementStage ==
    (Returned("find_matches") /\ Call.incompatibilities = <<>>) =>
        IF Call.identifier \notin DOMAIN Call.requirements
        THEN Call.matches = <<>>
        ELSE \A f \in DOMAIN scen.files :
                f \in Matched <=>
                    /\ DetailsCompatible(f)
                    /\ SatisfiesAll(f, Call.requirements[Call.identifier])
                    /\ MetadataCompatible(f)

\* C14: no candidate find_matches returns is equal to a candidate of
\* incompatibilities[I].
C14_NoIncompatibleReturned ==
    Returned("find_matches") =>
        \A i \in DOMAIN Call.matches :
            \A j \in DOMAIN GetOrEmpty(Call.incompatibilities, Call.identifier) :
                ~ CandidateEq(Call.matches[i], Call.incompatibilities[Call.identifier][j])

\* C15: every candidate find_matches returns has its metadata attached, and
\* the requires_python of that metadata, if any, contains the provider's
\* python_version: a file that passed the filter on the listing details and
\* whose fetched metadata excludes the interpreter is not returned.
C15_MatchesHaveCompatibleMetadata ==
    Returned("find_matches") =>
        \A f \in Matched :
            /\ f \in prov.fetched
            /\ \/ scen.files[f].requires_python = None
               \/ Contains(scen.files[f].requires_python[1], scen.python_version)

\* The call fetched the metadata of b-3, which asks for a newer interpreter,
\* and returned other candidates but not b-3.
C15_Witness ==
    /\ Returned("find_matches")
    /\ Matched # {}
    /\ \E k \in DOMAIN Call.batch :
          /\ DetailsCompatible(Call.batch[k])
          /\ ~ MetadataCompatible(Call.batch[k])
          /\ Call.batch[k] \notin Matched

\* C16: the list find_matches returns is sorted most preferred first: of two
\* adjacent candidates the key of the first is not less than the key of the
\* second, in whatever order the provider listed the files.
C16_MatchesSorted ==
    (Returned("find_matches") /\ ~ Call.raised) =>
        \A i \in 1 .. Len(Call.matches) - 1 :
            ~ KeyLess(candidate_sort_key(Call.matches[i]),
                      candidate_sort_key(Call.matches[i + 1]))

\* Three candidates were returned in the reverse of the order in which the
\* files were listed.
C16_Witness ==
    /\ Returned("find_matches")
    /\ Len(Call.matches) = 3
    /\ Call.matches[1].file > Call.matches[2].file
    /\ Call.matches[2].file > Call.matches[3].file
    /\ KeyLess(candidate_sort_key(Call.matches[3]), candidate_sort_key(Call.matches[1]))

\* C17: available_files is called at most once for a name, whatever the
\* extras of the identifiers asked for; the cached list of a name holds
\* exactly the listed files with a tag of the provider's whose declared
\* requires-python, if present, contains python_version, in listing order;
\* and a call leaves the lists cached before it as they were.
C17_AvailableFilesOncePerName ==
    /\ \A i \in DOMAIN prov.availCalls : \A j \in DOMAIN prov.availCalls :
            i # j => prov.availCalls[i] # prov.availCalls[j]
    /\ DOMAIN prov.cache = Range(prov.availCalls)
    /\ \A n \in DOMAIN prov.cache :
            prov.cache[n] = Filter([i \in DOMAIN scen.files |-> i], DetailsCompatible)
    /\ Returned("find_matches") =>
            \A n \in DOMAIN Call.cache_before : prov.cache[n] = Call.cache_before[n]

\* find_matches was called for b[e] when the list of b was cached already:
\* available_files has been called once, and the cache holds the three
\* usable wheels of the five listed.
C17_Witness ==
    /\ Returned("find_matches")
    /\ Call.identifier = <<<<"b">>, {<<"e">>}>>
    /\ <<"b">> \in DOMAIN Call.cache_before
    /\ prov.availCalls = << <<"b">> >>
    /\ Len(scen.files) = 5
    /\ prov.cache[<<"b">>] = <<3, 4, 5>>

\* C18: a file is handed to fetch_metadata at most once: the batch of a call
\* holds only cached files of the name that had no metadata before the call
\* and, when each lookup of requirements[I] gives all requirements, that
\* satisfy every one of them.
C18_MetadataFetchedOnce ==
    /\ \A i \in DOMAIN prov.fetchCalls : \A j \in DOMAIN prov.fetchCalls :
            i # j => prov.fetchCalls[i] # prov.fetchCalls[j]
    /\ Range(prov.fetchCalls) = prov.fetched
    /\ Returned("find_matches") =>
            \A k \in DOMAIN Call.batch :
                /\ Call.batch[k] \notin Call.fetched_before
                /\ DetailsCompatible(Call.batch[k])
                /\ Call.identifier \in DOMAIN Call.requirements
                /\ ~ Call.oneshot =>
                      SatisfiesAll(Call.batch[k], Call.requirements[Call.identifier])

\* A call returned a file whose metadata an earlier call had fetched, and
\* fetched the metadata of another file: the batch held the new file only.
C18_Witness ==
    /\ Returned("find_matches")
    /\ Call.batch # <<>>
    /\ \E f \in Matched : f \in Call.fetched_before /\ f \notin Range(Call.batch)

-----------------------------------------------------------------------------
(* Relations between two runs                                              *)

\* The second run of a pair of this kind has ended with a mapping.
SecondDone(kind) == scen.kind = kind /\ scen.run = 2 /\ pc = "done"

\* The first run ended with a mapping, too.
FirstDone == scen.first[1].outcome = "done"

\* The mapping of the first run.
FirstM == scen.first[1].mapping[1]

KeysOf(mapping) == {mapping[i].key : i \in DOMAIN mapping}

\* C19 as stated: when both runs succeed, the identifiers of the mapping
\* for the tightened requirements are among those of the mapping for the
\* original ones.
C19_TighteningAddsNoIdentifier ==
    (SecondDone("tighten") /\ FirstDone) => Keys \subseteq KeysOf(FirstM)

\* C19, amended: a mapping for the tightened requirements pins the
\* identifier of the tightened requirement to a version inside the shrunk
\* specifier and satisfies every top-level requirement of the original set;
\* its identifiers need not be among those of the original mapping.
C19_TightenedSolvesOriginal ==
    SecondDone("tighten") =>
        /\ CanonicalIdentifier(scen.roots[1]) \in Keys
        /\ Meets(scen.roots[1], Committed(CanonicalIdentifier(scen.roots[1])))
        /\ \A i \in DOMAIN scen.second :
              /\ CanonicalIdentifier(scen.second[i]) \in Keys
              /\ Meets(scen.second[i], Committed(CanonicalIdentifier(scen.second[i])))

\* "A" resolved to a-2 alone; "A==1" resolves to a-1, which requires b, so
\* the mapping gained the identifier of b.
C19_Witness ==
    /\ SecondDone("tighten") /\ FirstDone
    /\ scen.roots = <<[RootA EXCEPT !.specifier = Pin(1)]>>
    /\ KeysOf(FirstM) = {<<<<"a">>, {}>>}
    /\ Keys = {<<<<"a">>, {}>>, <<<<"b">>, {}>>}
    /\ scen.files[Committed(<<<<"a">>, {}>>).file].version = 1

\* C20 as stated: when both runs succeed, b[e]==v commits (b, {}) to the
\* candidate b==v commits it to, and its mapping is that of b==v, every
\* identifier with the same candidate, extended with (b, {e}) and what the
\* extra brings.
C20_ExtrasExtendMapping ==
    (SecondDone("extra") /\ FirstDone) =>
        /\ <<<<"b">>, {<<"e">>}>> \in Keys
        /\ \A k \in KeysOf(FirstM) :
              k \in Keys /\ Committed(k) = MappingGet(FirstM, k)

\* C20, amended: when both runs succeed, b[e]==v commits (b, {}) and
\* (b, {e}) to candidates of version v, the version b==v commits (b, {})
\* to; the wheel need not be the one b==v commits, and the other
\* identifiers need not keep their candidates.
C20_ExtrasKeepBaseVersion ==
    (SecondDone("extra") /\ FirstDone) =>
        /\ <<<<"b">>, {}>> \in Keys
        /\ <<<<"b">>, {<<"e">>}>> \in Keys
        /\ scen.files[Committed(<<<<"b">>, {}>>).file].version
              = scen.files[MappingGet(FirstM, <<<<"b">>, {}>>).file].version
        /\ scen.files[Committed(<<<<"b">>, {<<"e">>}>>).file].version
              = scen.files[MappingGet(FirstM, <<<<"b">>, {}>>).file].version

\* b==2 resolved to the wheel of b-2 of the preferred tag, whose extra e
\* requires z; b[e]==2 resolves with (b, {e}) and (b, {}) on the other
\* wheel of b-2.
C20_Witness ==
    /\ SecondDone("extra") /\ FirstDone
    /\ MappingGet(FirstM, <<<<"b">>, {}>>).file = 3
    /\ Committed(<<<<"b">>, {<<"e">>}>>).file = 7
    /\ Committed(<<<<"b">>, {}>>).file = 7

\* b==2 resolved with c-2; b[e]==2, whose extra e requires c==1, resolves
\* with the same wheel of b and c-1.
ExtrasChangeOtherPin ==
    /\ SecondDone("extra") /\ FirstDone
    /\ Committed(<<<<"b">>, {}>>) = MappingGet(FirstM, <<<<"b">>, {}>>)
    /\ <<<<"c">>, {}>> \in KeysOf(FirstM) \cap Keys
    /\ scen.files[MappingGet(FirstM, <<<<"c">>, {}>>).file].version = 2
    /\ scen.files[Committed(<<<<"c">>, {}>>).file].version = 1


-----------------------------------------------------------------------------
(* Termination of a run.                                                   *)

\* The run has returned its result with every requirement the final state
\* holds satisfied by the pin of its identifier, or it has raised
\* ResolutionImpossible.
Ended ==
    \/ pc = "impossible"
    \/ /\ pc = "done"
       /\ \A k \in DOMAIN Top.criteria.at :
              /\ MappingHas(Top.mapping, k)
              /\ \A info \in Range(Top.criteria.at[k].information) :
                     is_satisfied_by(info.requirement, MappingGet(Top.mapping, k))

\* C21: every resolver run over a finite index and a finite list of
\* requirements eventually ends, either with a mapping that satisfies every
\* requirement of its final state or with ResolutionImpossible; it does not
\* go on pinning and backtracking forever.
C21_RunTerminates == <>Ended

\* The run has raised ResolutionTooDeep, after max_rounds rounds of which
\* none found every requirement satisfied.
TooDeep == pc = "too_deep" /\ log.rounds = MaxRounds

\* C21, amended: every resolver run over a finite index and a finite list
\* of requirements eventually ends: with a mapping that satisfies every
\* requirement of its final state, with ResolutionImpossible, or, after
\* max_rounds rounds, with ResolutionTooDeep.
C21_RunTerminatesOrTooDeep == <>(Ended \/ TooDeep)

\* The run over the chain of max_rounds distributions has pinned one of
\* them in every round and raised ResolutionTooDeep.
C21_Witness ==
    /\ TooDeep
    /\ Len(scen.files) = MaxRounds
    /\ log.backjumps = 0

\* A run that backtracked, pinned again and then ended with a result.
EndedAfterBackjump ==
    /\ pc = "done"
    /\ log.backjumps >= 1
    /\ log.rounds >= 3

\* A run over the index of Spec ends before the loop runs out of rounds.
RoundsLeft == log.rounds < MaxRounds

-----------------------------------------------------------------------------
(* Equality of candidates.                                                 *)

\* C22: two candidates are equal exactly when their identifiers are equal
\* and their files have equal filename tuples (name, version, build tag,
\* tags); candidates of two separately constructed files of one filename
\* are equal.
C22_EqualByFilenameTuple ==
    Returned("candidate_eq") =>
        (Call.value <=>
            /\ Call.candidates[1].identifier = Call.candidates[2].identifier
            /\ filename_tuple(Call.candidates[1].file) = filename_tuple(Call.candidates[2].file))

\* Two candidates of one identifier over the two files of the same filename
\* have been compared.
C22_Witness ==
    /\ Returned("candidate_eq")
    /\ Call.candidates[1].identifier = Call.candidates[2].identifier
    /\ Call.candidates[1].file # Call.candidates[2].file
    /\ filename_tuple(Call.candidates[1].file) = filename_tuple(Call.candidates[2].file)

-----------------------------------------------------------------------------
(* The order in which identifiers are resolved.                            *)

\* C23: the preference of an identifier is the number of candidates left
\* for it and nothing else, so a round resolves, among the identifiers
\* whose criterion its pin does not satisfy, one with the fewest candidates.
C23_FewestCandidatesFirst ==
    [][(pc = "running" /\ pc' # "done") =>
          /\ log'.last.name # None
          /\ log'.last.name[1] \in Range(unsatisfied_names(Top))
          /\ log'.last.candidates = Top.criteria.at[log'.last.name[1]].candidates
          /\ \A k \in Range(unsatisfied_names(Top)) :
                Len(log'.last.candidates) <= Len(Top.criteria.at[k].candidates)]_vars

\* The first round pinned an identifier that was not the first top-level
\* requirement, the first one having more candidates.
C23_Witness ==
    /\ pc = "running"
    /\ log.rounds = 1
    /\ log.last.kind = "pin"
    /\ states[1].criteria.keys[1] # log.last.name[1]
    /\ Len(states[1].criteria.at[states[1].criteria.keys[1]].candidates)
           > Len(log.last.candidates)

-----------------------------------------------------------------------------
(* Extras in the states of a run.                                          *)

\* The pins of the current state of the run.
Pins == IF pc \in {"running", "done"} THEN Range(Top.mapping) ELSE {}

\* C24 as stated: in every state of a run, whenever (N, X) with X not empty
\* is pinned, (N, {}) is pinned too, to the same version.
C24_BasePinnedInEveryState ==
    \A e \in Pins :
        e.key[2] # {} =>
            /\ MappingHas(Top.mapping, <<e.key[1], {}>>)
            /\ File(MappingGet(Top.mapping, <<e.key[1], {}>>).file).version
                 = File(e.candidate.file).version

\* C24, amended: in every state of a run, whenever (N, X) with X not empty
\* is pinned and the pin satisfies its criterion, the criterion of (N, {})
\* holds the requirement N == the pinned version, asked for by that pin; so
\* a pin of (N, {}) that satisfies its criterion has that version, and
\* until there is one the run goes on.
C24_BaseRequiredInEveryState ==
    \A e \in Pins :
        (e.key[2] # {} /\ is_current_pin_satisfying(Top, e.key, Top.criteria.at[e.key])) =>
            /\ <<e.key[1], {}>> \in DOMAIN Top.criteria.at
            /\ \E info \in Range(Top.criteria.at[<<e.key[1], {}>>].information) :
                  /\ info.parent = Some(e.candidate)
                  /\ info.requirement.identifier = <<e.key[1], {}>>
                  /\ info.requirement.req.specifier = Pin(File(e.candidate.file).version)
            /\ is_current_pin_satisfying(Top, <<e.key[1], {}>>,
                                         Top.criteria.at[<<e.key[1], {}>>]) =>
                  File(MappingGet(Top.mapping, <<e.key[1], {}>>).file).version
                      = File(e.candidate.file).version
            /\ pc = "done" => MappingHas(Top.mapping, <<e.key[1], {}>>)

\* A state in the middle of a run where b[e] is pinned and b is not yet.
C24_Witness ==
    /\ pc = "running"
    /\ \E e \in Pins :
          /\ e.key = <<<<"b">>, {<<"e">>}>>
          /\ is_current_pin_satisfying(Top, e.key, Top.criteria.at[e.key])
          /\ ~ MappingHas(Top.mapping, <<<<"b">>, {}>>)

-----------------------------------------------------------------------------
(* The order of the matches and the order of the listing.                  *)

\* find_matches has returned under the second listing.
Relisted == scen.run = 2 /\ result # None

\* C25: whatever the order in which available_files lists a set
\* of wheels, find_matches returns the same sequence of candidates, also
\* when two distinct wheels have the same sort key.
C25_SameSequenceForEveryListing ==
    Relisted => Call.wheels = scen.first[1].wheels

\* What does hold: whatever the order of the listing, find_matches returns
\* the same set of wheels with the same sequence of sort keys, so the same
\* sequence of candidates when no two of them have the same key; wheels of
\* equal key are returned in the order of the listing.
SameKeysForEveryListing ==
    Relisted =>
        /\ Call.keys = scen.first[1].keys
        /\ Range(Call.wheels) = Range(scen.first[1].wheels)
        /\ (\A i, j \in DOMAIN Call.keys : i # j => Call.keys[i] # Call.keys[j])
               => Call.wheels = scen.first[1].wheels
        /\ \A i, j \in DOMAIN Call.keys :
               (i < j /\ Call.keys[i] = Call.keys[j]) => Call.listed[i] < Call.listed[j]

\* Two wheels of equal key were listed in one order, then in the other, and
\* returned in one order, then in the other.
C25_Witness ==
    /\ Relisted
    /\ Call.wheels # scen.first[1].wheels
    /\ \E i \in DOMAIN Call.keys : \E j \in DOMAIN Call.keys :
          i # j /\ Call.keys[i] = Call.keys[j]

-----------------------------------------------------------------------------
(* State kept from one run to the next.                                    *)

\* The run with the new provider has ended.
ThirdEnded == scen.run = 3 /\ pc \in {"done", "impossible"}

\* C26: a resolve that is given the provider object of an earlier resolve
\* ends as a resolve of the same requirements with a new provider over the
\* same index does, with the same mapping; nothing the first run wrote
\* influences it.
C26_ReusedProviderSameMapping ==
    ThirdEnded =>
        /\ scen.first[1].outcome = pc
        /\ scen.first[1].mapping = result

\* Both runs on the second requirements returned a mapping, and the two
\* mappings differ.
C26_Witness ==
    /\ ThirdEnded
    /\ pc = "done"
    /\ scen.first[1].outcome = "done"
    /\ scen.first[1].mapping # result

-----------------------------------------------------------------------------
(* get_dependencies after earlier calls.                                   *)

\* The markers of the dependency list of file f as its metadata was fetched.
FetchedMarkers(f) ==
    [i \in DOMAIN scen.files[f].requires_dist |-> scen.files[f].requires_dist[i].marker]

\* C27: whatever get_dependencies calls came before on candidates of the
\* same file, get_dependencies returns what it returns on the metadata as
\* fetched: besides the self-pin, the entries that the candidate's extras
\* and the environment include; for the candidate without extras, no entry
\* whose marker is true only with an extra.
C27_DependenciesAsOnFetchedMetadata ==
    Returned("get_dependencies") =>
        LET f == Call.candidate.file
            positions == IncludedPositions(FetchedMarkers(f), Call.candidate.identifier[2])
        IN  BesidesSelfPin =
                [k \in 1 .. Len(positions) |->
                    Requirement([scen.files[f].requires_dist[positions[k]]
                                     EXCEPT !.marker = None])]

\* get_dependencies was called for b without extras after a call for b[e]
\* had cleared a marker, and returned more than the entries without extras.
C27_Witness ==
    /\ Returned("get_dependencies")
    /\ Call.candidate = Candidate(<<<<"b">>, {}>>, 2)
    /\ Call.before # FetchedMarkers(2)
    /\ Len(Call.requirements) > Len(IncludedPositions(FetchedMarkers(2), {}))

-----------------------------------------------------------------------------
(* Completeness of the search.                                             *)

\* The identifiers a run over the index can meet: those of the top-level
\* requirements and of the dependency lists, and the bare one of each.
Identities ==
    LET reqs == Applicable \cup
                UNION {Range(scen.files[f].requires_dist) : f \in DOMAIN scen.files}
    IN  {CanonicalIdentifier(r) : r \in reqs}
            \cup {<<CanonicalIdentifier(r)[1], {}>> : r \in reqs}

\* The files of a distribution that can be used in the environment.
UsableFiles(name) ==
    {f \in DOMAIN scen.files : scen.files[f].name = name /\ EnvironmentCompatible(f)}

RECURSIVE AssignmentsOver(_)
\* The ways to pick at most one usable file for each of the identifiers.
AssignmentsOver(ids) ==
    IF ids = {} THEN {{}}
    ELSE LET i == CHOOSE x \in ids : TRUE
             rest == AssignmentsOver(ids \ {i})
         IN  rest \cup {s \cup {Candidate(i, f)} : <<s, f>> \in rest \X UsableFiles(i[1])}

\* The assignment satisfies every top-level requirement and, for each of its
\* candidates, every requirement get_dependencies gives for it on the
\* metadata as fetched.
Solves(assignment) ==
    /\ \A r \in Applicable : \E c \in assignment : Meets(r, c)
    /\ \A c \in assignment : \A d \in Range(FetchedDependencies(c)) :
           \E c2 \in assignment : is_satisfied_by(d, c2)

\* C28: resolve ends in ResolutionImpossible only when no assignment of
\* usable candidates to identifiers satisfies the top-level requirements
\* and is closed under get_dependencies; when there is one, resolve
\* backtracks and returns a mapping.
C28_ImpossibleOnlyWithoutSolution ==
    pc = "impossible" => ~ \E assignment \in AssignmentsOver(Identities) : Solves(assignment)

\* resolve ended in ResolutionImpossible after backtracking although a-1
\* with a usable b solves the requirement on A.
C28_Witness ==
    /\ pc = "impossible"
    /\ Applicable = {RootA}
    /\ log.backjumps >= 1
    /\ \E assignment \in AssignmentsOver(Identities) :
          /\ Solves(assignment)
          /\ Candidate(<<<<"a">>, {}>>, 2) \in assignment

-----------------------------------------------------------------------------
(* The merged lock.                                                        *)

\* lock() has been through the turn of every platform: the packages of all
\* of them are merged into locks.
Merged == result.turn = Len(PlatformsOf(scen))

\* The wheel names the merged table lists for a package.
LockedWheels(key) == result.locks.at[key].wheels

EveryWheelNameOnce ==
    \A key \in DOMAIN result.locks.at :
        \A i \in DOMAIN LockedWheels(key) : \A j \in DOMAIN LockedWheels(key) :
            LockedWheels(key)[i] = LockedWheels(key)[j] => i = j

\* C30: lock() merges the resolutions of its platforms, and in the merged
\* table each (name, version) package lists every wheel file name at most
\* once.
C30_MergedEveryWheelNameOnce == <>(Merged /\ EveryWheelNameOnce)

\* lock() for two platforms has ended in the first turn, in the TypeError
\* of the call that makes the provider, with nothing merged.
C30_Witness ==
    /\ pc = "TypeError"
    /\ Len(scen.platform) = 2
    /\ result.locks = EmptyDict

\* No run of lock() gets past its first turn: it ends in the ValueError of
\* platform_details or in the TypeError of PyPIProvider(markers=, tags=),
\* with nothing merged.
LockEndsInFirstTurn ==
    /\ pc \in {"lock", "file_lock", "ValueError", "TypeError"}
    /\ result.turn = 0
    /\ result.locks = EmptyDict

\* What the merge of lines 326-336 makes of the packages of two platforms,
\* the first with b pinned to one wheel of b-2, the second with (b, {e})
\* and (b, {}) pinned to the other: the else that appends belongs to the if
\* inside the walk over the recorded wheels, so the second wheel is
\* appended by the first package and once more by the second.
MergeAppendsTwice ==
    LET b == <<<<"b">>, {}>>
        be == <<<<"b">>, {<<"e">>}>>
        first == flatten_graph(<<[key |-> b, candidate |-> Candidate(b, 3)]>>)
        second == flatten_graph(<<[key |-> be, candidate |-> Candidate(be, 7)],
                                  [key |-> b, candidate |-> Candidate(b, 7)]>>)
        locks == MergePackagesFrom(MergePackagesFrom(EmptyDict, first, 1), second, 1)
    IN  /\ DOMAIN locks.at = {<<<<"b">>, 2>>}
        /\ locks.at[<<<<"b">>, 2>>].wheels
              = <<filename_tuple(3), filename_tuple(7), filename_tuple(7)>>

-----------------------------------------------------------------------------
(* The selection of choose_packages.                                       *)

Selected == result.selected_packages

\* choose_packages has left its loop with an exception.
Raised == pc \notin {"called", "choosing", "returned"}

\* The requirement popped last.
LastPopped == log.popped[Len(log.popped)]

\* The available versions satisfying a requirement.
SatisfyingAvailable(req) == possible_packages(req, available_packages(req.name))

\* The first environment-applicable requirement popped for a name.
FirstPoppedFor(name) ==
    log.popped[CHOOSE i \in DOMAIN log.popped :
                  /\ log.popped[i].name = name /\ applies_to_env(log.popped[i])
                  /\ \A j \in 1..(i - 1) :
                         ~ (log.popped[j].name = name /\ applies_to_env(log.popped[j]))]

\* Each name is selected at most once.
OneVersionPerName ==
    \A i \in DOMAIN Selected.keys : \A j \in DOMAIN Selected.keys :
        Selected.keys[i] = Selected.keys[j] => i = j

\* The selected version satisfies every applicable requirement popped for
\* its name, but for the one that has just raised UnsatisfiableError.
SelectedSatisfiesPopped ==
    \A name \in DOMAIN Selected.at : \A i \in DOMAIN log.popped :
        (log.popped[i].name = name /\ applies_to_env(log.popped[i])) =>
            \/ version_satisfies(log.popped[i], Selected.at[name])
            \/ (i = Len(log.popped) /\ pc = "UnsatisfiableError")

\* A selected version was the only available one satisfying the first
\* requirement popped for its name.
FirstSelectedWasOnlyChoice ==
    \A name \in DOMAIN Selected.at :
        SatisfyingAvailable(FirstPoppedFor(name)) = << Selected.at[name] >>

\* A requirement for a name not selected yet: UnsatisfiableError when no
\* available version satisfies it, AmbiguityError when several do.
NoChoiceRaises ==
    (/\ log.popped # <<>>
     /\ applies_to_env(LastPopped)
     /\ LastPopped.name \notin DOMAIN Selected.at) =>
        /\ Len(SatisfyingAvailable(LastPopped)) = 0 => pc = "UnsatisfiableError"
        /\ Len(SatisfyingAvailable(LastPopped)) > 1 => pc = "AmbiguityError"
        /\ Len(SatisfyingAvailable(LastPopped)) # 1

\* C29: after any number of turns of the loop of choose_packages each name
\* has at most one selected version, which satisfies every applicable
\* requirement popped for that name; a name is first selected only when
\* exactly one available version satisfies the requirement, none raising
\* UnsatisfiableError and several AmbiguityError; a later requirement the
\* selected version does not satisfy raises UnsatisfiableError and leaves
\* the selection as it was.
C29_OneSatisfyingVersionOrError ==
    pc \notin {"called", "ValueError"} =>
        /\ OneVersionPerName
        /\ SelectedSatisfiesPopped
        /\ FirstSelectedWasOnlyChoice
        /\ NoChoiceRaises

\* What does hold: the same, for the names that have a package in the
\* selected groups.
SelectionAmongAvailable ==
    pc \notin {"called", "ValueError"} =>
        /\ OneVersionPerName
        /\ SelectedSatisfiesPopped
        /\ FirstSelectedWasOnlyChoice
        /\ (log.popped # <<>> /\ IsAvailable(LastPopped.name)) => NoChoiceRaises

\* A package was selected, and a requirement popped after it names a
\* package no selected group provides.
C29_Witness ==
    /\ Raised
    /\ pc # "ValueError"
    /\ Selected.keys # <<>>
    /\ applies_to_env(LastPopped)
    /\ LastPopped.name \notin DOMAIN Selected.at
    /\ ~ IsAvailable(LastPopped.name)

-----------------------------------------------------------------------------
(* Two runs on the same inputs.                                            *)

\* The second of two runs on the same requirements has ended.
SecondEnded == scen.run = 2 /\ pc \in {"done", "impossible"}

\* C5: two resolver runs on the same requirements in the same environment,
\* with providers that list the same files in the same order with the same
\* metadata, end alike and with the same mapping.
C5_SameInputsSameMapping ==
    SecondEnded =>
        /\ scen.first[1].outcome = pc
        /\ scen.first[1].mapping = result

\* Two runs whose providers share no file or metadata object end alike and
\* with the same mapping.
SameMappingOverNewDescriptors ==
    (SecondEnded /\ scen.descriptors = "new") =>
        /\ scen.first[1].outcome = pc
        /\ scen.first[1].mapping = result

\* The first run returned a mapping after a backjump; the second, over the
\* same file objects, ended in ResolutionImpossible.
C5_Witness ==
    /\ SecondEnded
    /\ scen.descriptors = "shared"
    /\ scen.first[1].outcome = "done"
    /\ pc = "impossible"

=============================================================================
